---- MODULE Spec2Model ----
(***************************************************************************)
(* Verification model of the 32-bit emulator's memory regions              *)
(* (core/emulator32bit/src/Memory.cpp) and of the assembler preprocessor   *)
(* (src/AssemblerV3/Preprocess/PreprocessorV3.cpp).                        *)
(*                                                                         *)
(* A `word` is an unsigned 32-bit integer.  It is represented by its four  *)
(* base-256 digits, least significant first, so that every operation keeps *)
(* the exact width of the C++ type (arithmetic is modulo 2^32).            *)
(***************************************************************************)
EXTENDS Integers, Sequences, FiniteSets, TLC

VARIABLES
    \* ---- Memory (Memory.cpp) ----
    memKind,      \* "RAM" or "ROM": the dynamic type of the region
    lo_addr,      \* Memory::lo_addr
    hi_addr,      \* Memory::hi_addr
    mem_size,     \* Memory::mem_size
    data,         \* Memory::data, the elements of the byte array, by index
    rom_data,     \* the image a ROM was constructed from (index -> byte)
    rex,          \* the MemoryReadException record handed to the last read
    wex,          \* the MemoryWriteException record handed to the last write
    memRet,       \* the word returned by the last read
    memOp,        \* the last operation and its arguments
    memPrevOp,    \* the operation before it
    dataBefore,   \* the elements of the array before the last operation
    memOob,       \* an access indexed the array at or beyond mem_size
    memOps,       \* number of operations performed
    accessor,     \* the accessors called last and before, and the default
                  \* of the parameter num_bytes
    \* ---- Preprocessor (PreprocessorV3.cpp) ----
    m_state,      \* Preprocessor::m_state
    m_tokens,     \* Preprocessor::m_tokens
    tokI,         \* the loop variable i of preprocess(), 0-based
    m_symbols,    \* Preprocessor::m_symbols: symbol -> replacement tokens
    m_macros,     \* Preprocessor::m_macros: header -> macro
    m_macroStack, \* Preprocessor::m_macroStack: (output symbol, macro), top last
    written,      \* the strings handed to m_writer, in order
    m_writer,     \* the FileWriter: "none", "open" or "closed"
    currentIndentLevel,
    targetIndentLevel,
    ppc,          \* where preprocess() is: "idle", "loop", "done", "thrown"
    diag,         \* the message of the error that was thrown, "" if none
    prog,         \* the input: which source text m_tokens was made from
    lastDefine,   \* symbol -> the tokens of the most recent #define of it
    declared,     \* symbols whose last #define / #undef was a #define
    everDeclared, \* symbols a #define was executed for
    condLog,      \* the conditions evaluated, in order
    ppLast,       \* what the last iteration of the loop did
    symbolsBefore, \* m_symbols before the last iteration
    \* ---- Emulator32bit (software_interrupt.cpp) ----
    _x,           \* the registers x0 .. x4
    NR,           \* the register NR
    _pstate,      \* the flags N, Z, C, V
    swiLast,      \* the handler the last swi called, its arguments, its value
    halted,       \* the diagnostic execution was halted with, "" if none
    swiOps,       \* number of swi instructions executed
    instr,        \* the instruction run() executed last
    ran           \* number of instructions run() executed

memVars == <<memKind, lo_addr, hi_addr, mem_size, data, rom_data, rex, wex,
             memRet, memOp, memPrevOp, dataBefore, memOob, memOps, accessor>>

ppVars == <<m_state, m_tokens, tokI, m_symbols, m_macros, m_macroStack, written,
            m_writer, currentIndentLevel,
            targetIndentLevel, ppc, diag, prog, lastDefine, declared,
            everDeclared, condLog, ppLast, symbolsBefore>>

swiVars == <<_x, NR, _pstate, swiLast, halted, swiOps, instr, ran>>

\* what the preprocessor leaves alone
emuVars == <<memVars, swiVars>>

vars == <<memVars, ppVars, swiVars>>

----------------------------------------------------------------------------
(* Bounds of the model *)

\* number of read/write calls in one run
MaxMemOps == 2
\* number of macro definitions in one text
MaxMacros == 2
\* number of swi instructions in one run
MaxSwi == 2
\* number of instructions run() executes
MaxRun == 2

----------------------------------------------------------------------------
(* 32-bit words *)

\* a byte holds 8 bits: values 0 .. ByteMod - 1
ByteMod == 256

\* sizeof(word)
WordBytes == 4

Byte == 0 .. (ByteMod - 1)

\* the word made of the bytes b3 b2 b1 b0, most significant first
WB(b3, b2, b1, b0) == <<b0, b1, b2, b3>>

\* the word with value n, for 0 <= n < 2^31
W(n) == WB((n \div (ByteMod * ByteMod * ByteMod)) % ByteMod,
           (n \div (ByteMod * ByteMod)) % ByteMod,
           (n \div ByteMod) % ByteMod,
           n % ByteMod)

\* 0xFFFFFFFF
WMAX == WB(ByteMod - 1, ByteMod - 1, ByteMod - 1, ByteMod - 1)

\* the carry out of a digit sum t (negative for a borrow)
Carry(t) == (t - (t % ByteMod)) \div ByteMod

\* (word) (w + k) for an int k: unsigned arithmetic modulo 2^32
WordAdd(w, k) ==
    LET t1 == w[1] + k
        t2 == w[2] + Carry(t1)
        t3 == w[3] + Carry(t2)
        t4 == w[4] + Carry(t3)
    IN  <<t1 % ByteMod, t2 % ByteMod, t3 % ByteMod, t4 % ByteMod>>

\* (word) (a - b)
WordSub(a, b) ==
    LET t1 == a[1] - b[1]
        t2 == a[2] - b[2] + Carry(t1)
        t3 == a[3] - b[3] + Carry(t2)
        t4 == a[4] - b[4] + Carry(t3)
    IN  <<t1 % ByteMod, t2 % ByteMod, t3 % ByteMod, t4 % ByteMod>>

\* the two 16-bit halves of a word, as integers
HiHalf(w) == w[4] * ByteMod + w[3]
LoHalf(w) == w[2] * ByteMod + w[1]

\* a < b and a <= b on unsigned words
WordLT(a, b) ==
    \/ HiHalf(a) < HiHalf(b)
    \/ HiHalf(a) = HiHalf(b) /\ LoHalf(a) < LoHalf(b)
WordLE(a, b) == ~WordLT(b, a)

\* value <<= 8
Shl8(w) == <<0, w[1], w[2], w[3]>>

\* value >>= 8
Shr8(w) == <<w[2], w[3], w[4], 0>>

\* value & 0xFF
LowByte(w) == w[1]

\* v mod 2^(8n)
TruncWord(v, n) ==
    <<v[1], IF n >= 2 THEN v[2] ELSE 0, IF n >= 3 THEN v[3] ELSE 0, IF n >= 4 THEN v[4] ELSE 0>>

----------------------------------------------------------------------------
(* Memory regions: Memory.cpp *)

\* the byte indexes the model keeps: the bottom of the index space and its
\* last two indexes (an address near 2^32 - 1 wraps to the bottom)
ModelCells == {W(k) : k \in 0 .. 10} \cup {WMAX, WordAdd(WMAX, -1)}

\* the addresses the model hands to read and write
AddrCandidates == {W(k) : k \in 0 .. 7} \cup {WMAX, WordAdd(WMAX, -1)}

\* addresses handed to read and write of the region [lo, hi]: from one below
\* the region to one above it (modulo 2^32), and those around a far end.
\* Every index an access at one of them touches is in ModelCells.
AddrInputs(lo, hi) ==
    {a \in AddrCandidates :
        \/ a \in {WordAdd(lo, -1), lo, WordAdd(lo, 1)}
        \/ a \in {WordAdd(hi, k) : k \in -3 .. 1}}

\* values and widths handed to read and write
ValueInputs == {WB(17, 34, 51, 68), W(0)}        \* 0x11223344, 0
WidthInputs == {1, 2, 4}

\* what an element outside the array may hold when it is read
OobBytes == {0, 90}

\* contents of a freshly allocated (uninitialised) array: new byte[mem_size]
UninitBytes == {0, 238}

\* rom_data images: AA BB CC DD and 01 02 03 04 (index 0 first)
RomImages == {<<170, 187, 204, 221>>, <<1, 2, 3, 4>>}

\* regions the constructor accepts: lo_addr <= hi_addr
RamRegions == {<<W(0), W(3)>>, <<W(2), W(5)>>, <<W(1), WMAX>>}
RomRegions == {<<W(0), W(3)>>, <<W(1), W(4)>>}

\* is index idx an element of the array data[0 .. mem_size - 1]?
InArray(size, idx) == WordLT(idx, size)

\* the elements of the array the model keeps
ArrayCells(size) == {c \in ModelCells : InArray(size, c)}

\* Memory::Memory: mem_size == hi_addr - lo_addr + 1
SizeOf(lo, hi) == WordAdd(WordSub(hi, lo), 1)

NoReadException == [type |-> "AOK", address |-> W(0)]
NoWriteException == [type |-> "AOK", address |-> W(0), value |-> W(0), num_bytes |-> 0]
NoOp == [kind |-> "none", address |-> W(0), value |-> W(0), num_bytes |-> 0]

\* the array of a ROM of mem_size elements built from image
RomArray(size, image) == [c \in ArrayCells(size) |-> image[1 + LoHalf(c)]]

\* RAM::RAM
InitRAM(lo, hi, fill) ==
    /\ memKind = "RAM"
    /\ lo_addr = lo
    /\ hi_addr = hi
    /\ mem_size = SizeOf(lo, hi)
    /\ data = [c \in ArrayCells(SizeOf(lo, hi)) |-> fill]
    /\ rom_data = <<>>

\* ROM::ROM: data[i] = rom_data[i] for i < mem_size
InitROM(lo, hi, image) ==
    /\ memKind = "ROM"
    /\ lo_addr = lo
    /\ hi_addr = hi
    /\ mem_size = SizeOf(lo, hi)
    /\ rom_data = image
    /\ data = RomArray(SizeOf(lo, hi), image)

\* no accessor was called; read and write are declared with the default d
\* for num_bytes
NoAccessor(d) == [name |-> "none", prev |-> "none", num_bytes |-> d]

InitMemory ==
    /\ \/ \E r \in RamRegions, fill \in UninitBytes : InitRAM(r[1], r[2], fill)
       \/ \E r \in RomRegions, image \in RomImages : InitROM(r[1], r[2], image)
    /\ rex = NoReadException
    /\ wex = NoWriteException
    /\ memRet = W(0)
    /\ memOp = NoOp
    /\ memPrevOp = NoOp
    /\ dataBefore = data
    /\ memOob = FALSE
    /\ memOps = 0
    /\ accessor = NoAccessor(WordBytes)

\* Memory::in_bounds
in_bounds(address) == WordLE(lo_addr, address) /\ WordLE(address, hi_addr)

\* the guard of Memory::read and Memory::write
AccessRejected(address, num_bytes) ==
    ~in_bounds(address) \/ ~in_bounds(WordAdd(address, num_bytes - 1))

\* the indexes data[(word) (address + i)], 0 <= i < num_bytes
TouchedCells(address, num_bytes) == {WordAdd(address, i) : i \in 0 .. (num_bytes - 1)}

\* those of them that are no element of the array
OobCells(address, num_bytes) ==
    {c \in TouchedCells(address, num_bytes) : ~InArray(mem_size, c)}

\* what the loop of Memory::read computes from the bytes d
RECURSIVE ReadLoop(_, _, _, _, _)
ReadLoop(d, address, num_bytes, i, value) ==
    IF i >= num_bytes THEN value
    ELSE ReadLoop(d, address, num_bytes, i + 1,
                  WordAdd(Shl8(value), d[WordAdd(address, i)]))

\* data[idx] = b, for an element of the array; a store outside the array
\* lands outside the object and leaves the elements as they are
StoreByte(d, idx, b) == IF idx \in DOMAIN d THEN [d EXCEPT ![idx] = b] ELSE d

\* the loop of Memory::write
RECURSIVE WriteLoop(_, _, _, _, _)
WriteLoop(d, address, value, num_bytes, i) ==
    IF i >= num_bytes THEN d
    ELSE WriteLoop(StoreByte(d, WordAdd(address, i), LowByte(value)),
                   address, Shr8(value), num_bytes, i + 1)

MemStep(kind, address, value, num_bytes) ==
    /\ memOps' = memOps + 1
    /\ memPrevOp' = memOp
    /\ dataBefore' = data
    /\ memOp' = [kind |-> kind, address |-> address, value |-> value,
                 num_bytes |-> num_bytes]
    /\ UNCHANGED <<memKind, lo_addr, hi_addr, mem_size, rom_data>>
    /\ UNCHANGED ppVars
    /\ UNCHANGED swiVars

\* Memory::read (RAM and ROM)
Memory_read(address, num_bytes) ==
    /\ MemStep("read", address, W(0), num_bytes)
    /\ IF AccessRejected(address, num_bytes)
       THEN /\ rex' = [type |-> "OUT_OF_BOUNDS_ADDRESS", address |-> address]
            /\ memRet' = W(0)
            /\ UNCHANGED memOob
       ELSE \E h \in [OobCells(address, num_bytes) -> OobBytes] :
               /\ rex' = NoReadException
               /\ memRet' = ReadLoop([c \in TouchedCells(address, num_bytes) |->
                                         IF c \in DOMAIN data THEN data[c] ELSE h[c]],
                                     address, num_bytes, 0, W(0))
               /\ memOob' = (memOob \/ OobCells(address, num_bytes) # {})
    /\ UNCHANGED <<data, wex>>

\* Memory::write storing one byte more than asked
Memory_write_OneMore(address, value, num_bytes) ==
    /\ MemStep("write", address, value, num_bytes)
    /\ IF AccessRejected(address, num_bytes)
       THEN /\ wex' = [type |-> "OUT_OF_BOUNDS_ADDRESS", address |-> address,
                       value |-> value, num_bytes |-> num_bytes]
            /\ UNCHANGED <<data, memOob>>
       ELSE /\ wex' = NoWriteException
            /\ data' = WriteLoop(data, address, value, num_bytes + 1, 0)
            /\ memOob' = (memOob \/ OobCells(address, num_bytes) # {})
    /\ UNCHANGED <<rex, memRet>>

\* Memory::write (RAM)
Memory_write(address, value, num_bytes) ==
    /\ MemStep("write", address, value, num_bytes)
    /\ IF AccessRejected(address, num_bytes)
       THEN /\ wex' = [type |-> "OUT_OF_BOUNDS_ADDRESS", address |-> address,
                       value |-> value, num_bytes |-> num_bytes]
            /\ UNCHANGED <<data, memOob>>
       ELSE /\ wex' = NoWriteException
            /\ data' = WriteLoop(data, address, value, num_bytes, 0)
            /\ memOob' = (memOob \/ OobCells(address, num_bytes) # {})
    /\ UNCHANGED <<rex, memRet>>

\* ROM::write left out: the call reaches Memory::write
ROM_write_NotOverridden(address, value, num_bytes) == Memory_write(address, value, num_bytes)

\* ROM::write
ROM_write(address, value, num_bytes) ==
    /\ MemStep("write", address, value, num_bytes)
    /\ wex' = [type |-> "ACCESS_DENIED", address |-> address,
               value |-> value, num_bytes |-> num_bytes]
    /\ UNCHANGED <<data, memOob, rex, memRet>>

MemRead ==
    /\ memOps < MaxMemOps
    /\ UNCHANGED accessor
    /\ \E a \in AddrInputs(lo_addr, hi_addr), n \in WidthInputs : Memory_read(a, n)
MemWrite ==
    /\ memOps < MaxMemOps
    /\ UNCHANGED accessor
    /\ memKind = "RAM"
    /\ \E a \in AddrInputs(lo_addr, hi_addr), v \in ValueInputs, n \in WidthInputs :
          Memory_write(a, v, n)
RomWrite ==
    /\ memOps < MaxMemOps
    /\ UNCHANGED accessor
    /\ memKind = "ROM"
    /\ \E a \in AddrInputs(lo_addr, hi_addr), v \in ValueInputs, n \in WidthInputs :
          ROM_write(a, v, n)

NextMem == MemRead \/ MemWrite \/ RomWrite

\* the accessors of a RAM. writeByte, writeHalfWord and writeWord call
\* write(address, data, exception) and leave num_bytes to its default, which
\* the declaration in Memory.h gives: one value for the three of them
DefaultWidths == {1, 2, 4}
\* the values handed to them: 0x44, 0x3344 and 0x11223344
ByteInput == WB(0, 0, 0, 68)
HalfWordInput == WB(0, 0, 51, 68)
WordInput == WB(17, 34, 51, 68)

\* a call of the accessor name
Calls(name) ==
    /\ memOps < MaxMemOps
    /\ accessor' = [accessor EXCEPT !.name = name, !.prev = accessor.name]

\* Memory::readByte
readByte(address) == Calls("readByte") /\ Memory_read(address, 1)
\* Memory::readHalfWord
readHalfWord(address) == Calls("readHalfWord") /\ Memory_read(address, 2)
\* Memory::readWord
readWord(address) == Calls("readWord") /\ Memory_read(address, 4)
\* Memory::writeByte
writeByte(address, value) ==
    Calls("writeByte") /\ Memory_write(address, value, accessor.num_bytes)
\* Memory::writeHalfWord
writeHalfWord(address, value) ==
    Calls("writeHalfWord") /\ Memory_write(address, value, accessor.num_bytes)
\* Memory::writeWord
writeWord(address, value) ==
    Calls("writeWord") /\ Memory_write(address, value, accessor.num_bytes)

ReadByte == \E a \in AddrInputs(lo_addr, hi_addr) : readByte(a)
ReadHalfWord == \E a \in AddrInputs(lo_addr, hi_addr) : readHalfWord(a)
ReadWord == \E a \in AddrInputs(lo_addr, hi_addr) : readWord(a)
WriteByte == \E a \in AddrInputs(lo_addr, hi_addr) : writeByte(a, ByteInput)
WriteHalfWord == \E a \in AddrInputs(lo_addr, hi_addr) : writeHalfWord(a, HalfWordInput)
WriteWord == \E a \in AddrInputs(lo_addr, hi_addr) : writeWord(a, WordInput)

NextAcc ==
    \/ ReadByte
    \/ ReadHalfWord
    \/ ReadWord
    \/ WriteByte
    \/ WriteHalfWord
    \/ WriteWord

\* a RAM whose accessors are called
InitAccessors ==
    /\ \E r \in RamRegions, fill \in UninitBytes : InitRAM(r[1], r[2], fill)
    /\ \E d \in DefaultWidths : accessor = NoAccessor(d)
    /\ rex = NoReadException
    /\ wex = NoWriteException
    /\ memRet = W(0)
    /\ memOp = NoOp
    /\ memPrevOp = NoOp
    /\ dataBefore = data
    /\ memOob = FALSE
    /\ memOps = 0

----------------------------------------------------------------------------
(* Properties of the memory regions *)

\* lo_addr <= addr and addr + n - 1 <= hi_addr, as mathematical integers
MathInBounds(address, num_bytes) ==
    /\ WordLE(lo_addr, address)
    /\ ~WordLT(WordAdd(address, num_bytes - 1), address)
    /\ WordLE(WordAdd(address, num_bytes - 1), hi_addr)

\* the last operation ran Memory::read or Memory::write
LastIsMemoryAccess ==
    memOp.kind = "read" \/ (memOp.kind = "write" /\ memKind = "RAM")

\* the last operation raised no exception
LastAccepted ==
    \/ memOp.kind = "read" /\ rex.type = "AOK"
    \/ memOp.kind = "write" /\ wex.type = "AOK"

\* C1: on a RAM, write(a, v, n) followed by read(a, n), with n in {1, 2, 4}
\* and [a, a + n - 1] inside the region, returns v mod 2^(8n) and raises no
\* exception (stated for the accesses that stay inside the array).
C1_WriteReadRoundTrip ==
    (/\ memKind = "RAM"
     /\ memPrevOp.kind = "write"
     /\ memOp.kind = "read"
     /\ memOp.address = memPrevOp.address
     /\ memOp.num_bytes = memPrevOp.num_bytes
     /\ MathInBounds(memOp.address, memOp.num_bytes)
     /\ TouchedCells(memOp.address, memOp.num_bytes) \subseteq DOMAIN data)
    => /\ memRet = TruncWord(memPrevOp.value, memOp.num_bytes)
       /\ rex.type = "AOK"
       /\ wex.type = "AOK"

\* C2: an accepted write(addr, value, n) leaves the least-significant byte of
\* value at addr + n - 1 and the most-significant of the n bytes at addr; an
\* accepted read(addr, n) returns the byte at addr as the most-significant of
\* the n bytes of its result.
C2_BigEndianBytes ==
    /\ (/\ memKind = "RAM"
        /\ memOp.kind = "write"
        /\ wex.type = "AOK"
        /\ TouchedCells(memOp.address, memOp.num_bytes) \subseteq DOMAIN data)
       => /\ data[WordAdd(memOp.address, memOp.num_bytes - 1)] = LowByte(memOp.value)
          /\ data[memOp.address] = memOp.value[memOp.num_bytes]
    /\ (/\ memOp.kind = "read"
        /\ rex.type = "AOK"
        /\ TouchedCells(memOp.address, memOp.num_bytes) \subseteq DOMAIN data)
       => memRet[memOp.num_bytes] = data[memOp.address]

\* C3: ROM::write, whatever its arguments, sets the write exception to
\* ACCESS_DENIED (with the address, value and byte count) and changes no
\* byte: the array always equals the initial image, every accepted read
\* returns what it returns on the initial image, and a ROM over [0,3] made
\* from AA BB CC DD reads 0xAABBCCDD at address 0, width 4.
C3_RomWriteDenied ==
    memKind = "ROM" =>
        /\ data = RomArray(mem_size, rom_data)
        /\ memOp.kind = "write" =>
              wex = [type |-> "ACCESS_DENIED", address |-> memOp.address,
                     value |-> memOp.value, num_bytes |-> memOp.num_bytes]
        /\ (/\ memOp.kind = "read"
            /\ rex.type = "AOK"
            /\ TouchedCells(memOp.address, memOp.num_bytes) \subseteq DOMAIN data)
           => memRet = ReadLoop(RomArray(mem_size, rom_data), memOp.address,
                                memOp.num_bytes, 0, W(0))
        /\ (/\ memOp.kind = "read"
            /\ lo_addr = W(0)
            /\ hi_addr = W(3)
            /\ rom_data = <<170, 187, 204, 221>>
            /\ memOp.address = W(0)
            /\ memOp.num_bytes = WordBytes)
           => memRet = WB(170, 187, 204, 221)

\* a ROM over [0,3] made from AA BB CC DD was written to and then read at
\* address 0, width 4
C3_Witness ==
    /\ memKind = "ROM"
    /\ memPrevOp.kind = "write"
    /\ memPrevOp.address = W(0)
    /\ wex.type = "ACCESS_DENIED"
    /\ memOp.kind = "read"
    /\ memOp.address = W(0)
    /\ memOp.num_bytes = WordBytes
    /\ rom_data = <<170, 187, 204, 221>>
    /\ memRet = WB(170, 187, 204, 221)

\* C4: a Memory::read or Memory::write whose byte range is not wholly inside
\* [lo_addr, hi_addr] sets OUT_OF_BOUNDS_ADDRESS in the exception record (a
\* write with the address, the value and the byte count), changes no byte,
\* and a faulting read returns 0.
C4_OutOfBoundsFaults ==
    (LastIsMemoryAccess /\ ~MathInBounds(memOp.address, memOp.num_bytes))
    => /\ data = dataBefore
       /\ memOp.kind = "read" =>
             /\ rex = [type |-> "OUT_OF_BOUNDS_ADDRESS", address |-> memOp.address]
             /\ memRet = W(0)
       /\ memOp.kind = "write" =>
             wex = [type |-> "OUT_OF_BOUNDS_ADDRESS", address |-> memOp.address,
                    value |-> memOp.value, num_bytes |-> memOp.num_bytes]

\* C5: Memory::read and Memory::write accept an access if and only if
\* lo_addr <= addr and addr + n - 1 <= hi_addr as mathematical integers; an
\* access whose addr + n - 1 passes 2^32 - 1 is rejected.
C5_InBoundsIff ==
    LastIsMemoryAccess =>
        (LastAccepted <=> MathInBounds(memOp.address, memOp.num_bytes))

\* C6: an accepted Memory::write(addr, value, n) on a RAM changes only the
\* bytes at addr .. addr + n - 1: every other element of the array is as it
\* was, and a read of any accepted byte range disjoint from the written one
\* returns the same value on the array before and after the write.
C6_WriteFrame ==
    (memKind = "RAM" /\ memOp.kind = "write" /\ wex.type = "AOK")
    => /\ \A c \in DOMAIN data :
             c \notin TouchedCells(memOp.address, memOp.num_bytes)
                => data[c] = dataBefore[c]
       /\ \A a \in AddrCandidates, n \in WidthInputs :
             (/\ ~AccessRejected(a, n)
              /\ TouchedCells(a, n) \subseteq DOMAIN data
              /\ TouchedCells(a, n) \cap TouchedCells(memOp.address, memOp.num_bytes) = {})
             => ReadLoop(data, a, n, 0, W(0)) = ReadLoop(dataBefore, a, n, 0, W(0))

\* an accepted one-byte write changed its byte and left another byte of the
\* region, holding something else, alone
C6_Witness ==
    /\ memKind = "RAM"
    /\ memOp.kind = "write"
    /\ wex.type = "AOK"
    /\ memOp.num_bytes = 1
    /\ memOp.address \in DOMAIN data
    /\ data[memOp.address] # dataBefore[memOp.address]
    /\ \E c \in DOMAIN data :
          /\ c # memOp.address
          /\ in_bounds(c)
          /\ data[c] = dataBefore[c]
          /\ data[c] # data[memOp.address]

----------------------------------------------------------------------------
(* The preprocessor: tokens *)

\* Tokenizer::Token: its type (a name of Tokenizer::Type) and its text
Token(type, value) == [type |-> type, value |-> value]

\* Tokenizer::PREPROCESSOR_DIRECTIVES, the keys of Preprocessor::preprocessors
preprocessors ==
    {"PREPROCESSOR_INCLUDE", "PREPROCESSOR_MACRO", "PREPROCESSOR_MACRET",
     "PREPROCESSOR_MACEND", "PREPROCESSOR_INVOKE", "PREPROCESSOR_DEFINE",
     "PREPROCESSOR_UNDEF", "PREPROCESSOR_IFDEF", "PREPROCESSOR_IFNDEF",
     "PREPROCESSOR_ELSE", "PREPROCESSOR_ELSEDEF", "PREPROCESSOR_ELSENDEF",
     "PREPROCESSOR_ENDIF"}

\* the tokens the tokenizer makes of the pieces of text the inputs are made of
NL == Token("WHITESPACE_NEWLINE", "\n")
SP == Token("WHITESPACE_SPACE", " ")
TAB == Token("WHITESPACE_TAB", "\t")
Sym(s) == Token("SYMBOL", s)
Num(s) == Token("LITERAL_NUMBER_DECIMAL", s)
DirectiveText ==
    [PREPROCESSOR_DEFINE |-> "#define", PREPROCESSOR_UNDEF |-> "#undef",
     PREPROCESSOR_IFDEF |-> "#ifdef", PREPROCESSOR_IFNDEF |-> "#ifndef",
     PREPROCESSOR_ELSE |-> "#else", PREPROCESSOR_ELSEDEF |-> "#elsedef",
     PREPROCESSOR_ELSENDEF |-> "#elsendef", PREPROCESSOR_ENDIF |-> "#endif",
     PREPROCESSOR_MACRO |-> "#macro", PREPROCESSOR_MACRET |-> "#macret",
     PREPROCESSOR_MACEND |-> "#macend", PREPROCESSOR_INVOKE |-> "#invoke"]
Directive(type) == Token(type, DirectiveText[type])

\* the token conditionalBlock puts where a satisfied condition was
ConditionalComment == Token("COMMENT_SINGLE_LINE", "; conditional")

\* vector indexing, erase and insert with the 0-based indexes of the code
At(toks, k) == toks[k + 1]
Erase(toks, from, to) == SubSeq(toks, 1, from) \o SubSeq(toks, to + 1, Len(toks))
Insert(toks, at, new) == SubSeq(toks, 1, at) \o new \o SubSeq(toks, at + 1, Len(toks))

\* std::regex_match(value, "[ \t]")
IsBlank(tok) == tok.value \in {" ", "\t"}

\* Preprocessor::skipTokens(tokenI, "[ \t]"): the index after the blanks
RECURSIVE skipTokens(_, _)
skipTokens(toks, tokenI) ==
    IF tokenI < Len(toks) /\ IsBlank(At(toks, tokenI))
    THEN skipTokens(toks, tokenI + 1)
    ELSE tokenI

\* Preprocessor::expectToken(tokenI, errorMsg): does it pass
expectToken(toks, tokenI) == tokenI < Len(toks)

\* Preprocessor::isToken(tokenI, tokenTypes) once expectToken has passed
isToken(toks, tokenI, tokenTypes) == At(toks, tokenI).type \in tokenTypes

\* Preprocessor::consume(tokenI, expectedTypes, errorMsg): "" when it passes,
\* the message thrown otherwise
consume(toks, tokenI, expectedTypes, errorMsg) ==
    IF ~expectToken(toks, tokenI) THEN errorMsg
    ELSE IF ~isToken(toks, tokenI, expectedTypes)
         THEN errorMsg \o " - Unexpected end of file."
    ELSE ""

\* what a handler hands back to the loop of preprocess(): the message thrown
\* ("" if none), the token vector, the cursor, the symbol table, the symbol
\* the directive named, whether tokens were inserted, the value of a condition
Verdict(conditionMet) == IF conditionMet THEN "met" ELSE "unmet"
Outcome(err, toks, tokenI, syms, sym, inserted, met) ==
    [err |-> err, tokens |-> toks, tokenI |-> tokenI, symbols |-> syms,
     sym |-> sym, inserted |-> inserted, met |-> met]
Thrown(err, toks, tokenI, syms, sym) ==
    Outcome(err, toks, tokenI, syms, sym, FALSE, "none")

\* a map with key k bound to v, and with key k removed
MapPut(m, k, v) == [x \in DOMAIN m \cup {k} |-> IF x = k THEN v ELSE m[x]]
MapErase(m, k) == [x \in DOMAIN m \ {k} |-> m[x]]
\* std::map::insert: an existing key keeps its value
MapInsert(m, k, v) == IF k \in DOMAIN m THEN m ELSE MapPut(m, k, v)
EmptyMap == [x \in {} |-> <<>>]

----------------------------------------------------------------------------
(* The preprocessor: the directive handlers, as functions of the token
   vector, the symbol table and the cursor *)

\* the message of expectToken when the caller passes none
DefaultErrorMsg == "Preprocessor::consume() - Unexpected end of file"

\* the index of the first newline token at or after tokenI, Len(toks) if none:
\* the loop "while (!isToken(tokenI, {WHITESPACE_NEWLINE}))" of _define
RECURSIVE LineEnd(_, _)
LineEnd(toks, tokenI) ==
    IF tokenI >= Len(toks) THEN tokenI
    ELSE IF isToken(toks, tokenI, {"WHITESPACE_NEWLINE"}) THEN tokenI
    ELSE LineEnd(toks, tokenI + 1)

\* the head shared by the handlers that name a symbol: consume the directive,
\* skip blanks, consume the symbol, skip blanks
SymbolHead(toks, tokenI, errorMsg) ==
    LET symI == skipTokens(toks, tokenI + 1)
        err == consume(toks, symI, {"SYMBOL"}, errorMsg)
    IN [err |-> err, symI |-> symI,
        symbol |-> IF err = "" THEN At(toks, symI).value ELSE "",
        tokenI |-> IF err = "" THEN skipTokens(toks, symI + 1) ELSE symI]

\* Preprocessor::_define
_define(toks, syms, tokenI) ==
    LET h == SymbolHead(toks, tokenI, "Preprocessor::_define() - Expected symbol.")
        endI == LineEnd(toks, h.tokenI)
    IN IF h.err # "" THEN Thrown(h.err, toks, h.tokenI, syms, "")
       ELSE IF endI >= Len(toks) THEN Thrown(DefaultErrorMsg, toks, endI, syms, h.symbol)
       ELSE Outcome("", toks, endI,
                    MapInsert(syms, h.symbol, SubSeq(toks, h.tokenI + 1, endI)),
                    h.symbol, FALSE, "none")

\* Preprocessor::_undefine, mutated: the symbol table is left as it was
_undefine_KeepsSymbol(toks, syms, tokenI) ==
    LET h == SymbolHead(toks, tokenI, "Preprocessor::_define() - Expected symbol.")
    IN IF h.err # "" THEN Thrown(h.err, toks, h.tokenI, syms, "")
       ELSE Outcome("", toks, h.tokenI, syms, h.symbol, FALSE, "none")

\* Preprocessor::_undefine
_undefine(toks, syms, tokenI) ==
    LET h == SymbolHead(toks, tokenI, "Preprocessor::_define() - Expected symbol.")
    IN IF h.err # "" THEN Thrown(h.err, toks, h.tokenI, syms, "")
       ELSE Outcome("", toks, h.tokenI, MapErase(syms, h.symbol), h.symbol,
                    FALSE, "none")

\* the directives conditionalBlock counts as nested openers, and as the
\* start of the next block of the chain
NestedOpeners == {"PREPROCESSOR_IFDEF", "PREPROCESSOR_IFNDEF"}
ChainAlternates == {"PREPROCESSOR_ELSE", "PREPROCESSOR_ELSEDEF", "PREPROCESSOR_ELSENDEF"}

\* the while loop of conditionalBlock: nextBlockTokenI and endIfTokenI when
\* it ends, -1 for "not found"
RECURSIVE ScanBlock(_, _, _, _, _)
ScanBlock(toks, currentTokenI, relativeScopeLevel, nextBlockTokenI, conditionMet) ==
    IF currentTokenI >= Len(toks)
    THEN [nextBlockTokenI |-> nextBlockTokenI, endIfTokenI |-> -1]
    ELSE
      LET type == At(toks, currentTokenI).type
          isAlternate == relativeScopeLevel = 0 /\ type \in ChainAlternates
          nextBlock == IF isAlternate /\ nextBlockTokenI = -1
                       THEN currentTokenI ELSE nextBlockTokenI
      IN IF relativeScopeLevel = 0 /\ type = "PREPROCESSOR_ENDIF"
         THEN [nextBlockTokenI |-> nextBlockTokenI, endIfTokenI |-> currentTokenI]
         ELSE IF isAlternate /\ ~conditionMet
         THEN [nextBlockTokenI |-> nextBlock, endIfTokenI |-> -1]
         ELSE ScanBlock(toks, currentTokenI + 1,
                        IF type \in NestedOpeners THEN relativeScopeLevel + 1
                        ELSE IF type = "PREPROCESSOR_ENDIF" THEN relativeScopeLevel - 1
                        ELSE relativeScopeLevel,
                        nextBlock, conditionMet)

\* Preprocessor::conditionalBlock, mutated: a satisfied condition leaves the
\* later blocks of the chain in the token vector
conditionalBlock_KeepsAlternates(toks, syms, tokenI, symbol, conditionMet) ==
    LET scan == ScanBlock(toks, tokenI, 0, -1, conditionMet)
    IN IF \/ conditionMet /\ scan.endIfTokenI = -1
          \/ ~conditionMet /\ scan.nextBlockTokenI = -1
       THEN Outcome("Preprocessor::_ifdef() - Unclosed ifdef block.", toks,
                    tokenI, syms, symbol, FALSE, Verdict(conditionMet))
       ELSE IF conditionMet
       THEN Outcome("", Insert(toks, tokenI, <<ConditionalComment>>), tokenI,
                    syms, symbol, TRUE, Verdict(conditionMet))
       ELSE Outcome("", toks, scan.nextBlockTokenI, syms, symbol, FALSE,
                    Verdict(conditionMet))

\* Preprocessor::conditionalBlock. A vector that has just lost elements has
\* room for the inserted comment; otherwise the insertion may reallocate.
conditionalBlock(toks, syms, tokenI, symbol, conditionMet) ==
    LET scan == ScanBlock(toks, tokenI, 0, -1, conditionMet)
        erased == IF scan.nextBlockTokenI # -1
                  THEN Erase(toks, scan.nextBlockTokenI, scan.endIfTokenI)
                  ELSE toks
    IN IF \/ conditionMet /\ scan.endIfTokenI = -1
          \/ ~conditionMet /\ scan.nextBlockTokenI = -1
       THEN Outcome("Preprocessor::_ifdef() - Unclosed ifdef block.", toks,
                    tokenI, syms, symbol, FALSE, Verdict(conditionMet))
       ELSE IF conditionMet
       THEN Outcome("", Insert(erased, tokenI, <<ConditionalComment>>), tokenI,
                    syms, symbol, Len(erased) = Len(toks), Verdict(conditionMet))
       ELSE Outcome("", toks, scan.nextBlockTokenI, syms, symbol, FALSE,
                    Verdict(conditionMet))

\* _ifdef and _elsedef (defined = TRUE), _ifndef and _elsendef (defined = FALSE)
ConditionalOn(toks, syms, tokenI, errorMsg, defined) ==
    LET h == SymbolHead(toks, tokenI, errorMsg)
    IN IF h.err # "" THEN Thrown(h.err, toks, h.tokenI, syms, "")
       ELSE conditionalBlock(toks, syms, h.tokenI, h.symbol,
                             (h.symbol \in DOMAIN syms) = defined)

\* Preprocessor::_ifdef
_ifdef(toks, syms, tokenI) ==
    ConditionalOn(toks, syms, tokenI, "Preprocessor::_ifdef() - Expected symbol.", TRUE)
\* Preprocessor::_ifndef
_ifndef(toks, syms, tokenI) ==
    ConditionalOn(toks, syms, tokenI, "Preprocessor::_ifndef() - Expected symbol.", FALSE)
\* Preprocessor::_elsedef
_elsedef(toks, syms, tokenI) ==
    ConditionalOn(toks, syms, tokenI, "Preprocessor::_elsedef() - Expected symbol.", TRUE)
\* Preprocessor::_elsendef
_elsendef(toks, syms, tokenI) ==
    ConditionalOn(toks, syms, tokenI, "Preprocessor::_elsendef() - Expected symbol.", FALSE)
\* Preprocessor::_else
_else(toks, syms, tokenI) ==
    Outcome("", toks, skipTokens(toks, tokenI + 1), syms, "", FALSE, "none")
\* Preprocessor::_endif
_endif(toks, syms, tokenI) ==
    Outcome("", toks, skipTokens(toks, tokenI + 1), syms, "", FALSE, "none")

----------------------------------------------------------------------------
(* The preprocessor: macros *)

\* Tokenizer::VARIABLE_TYPES
VARIABLE_TYPES ==
    {"VARIABLE_TYPE_BYTE", "VARIABLE_TYPE_DBYTE", "VARIABLE_TYPE_WORD",
     "VARIABLE_TYPE_DWORD", "VARIABLE_TYPE_CHAR", "VARIABLE_TYPE_STRING",
     "VARIABLE_TYPE_FLOAT", "VARIABLE_TYPE_DOUBLE", "VARIABLE_TYPE_BOOLEAN"}

\* Preprocessor::Macro: name, arguments (name and type each), returnType and
\* definition; a type that was not given is Tokenizer::UNKNOWN
Macro(name, arguments, returnType, definition) ==
    [name |-> name, arguments |-> arguments, returnType |-> returnType,
     definition |-> definition]
\* Macro::header(): the key of m_macros, the name and the number of arguments
header(macro) == <<macro.name, Len(macro.arguments)>>

\* skipTokens(tokenI, "[ \t\n]")
RECURSIVE skipTokensNL(_, _)
skipTokensNL(toks, tokenI) ==
    IF tokenI < Len(toks) /\ At(toks, tokenI).value \in {" ", "\t", "\n"}
    THEN skipTokensNL(toks, tokenI + 1)
    ELSE tokenI

\* the first index at or after tokenI whose token has one of the types,
\* Len(toks) if there is none: "while (!isToken(tokenI, types)) consume"
RECURSIVE FindType(_, _, _)
FindType(toks, tokenI, types) ==
    IF tokenI >= Len(toks) THEN tokenI
    ELSE IF At(toks, tokenI).type \in types THEN tokenI
    ELSE FindType(toks, tokenI + 1, types)

\* _macro, "parse arguments": the loop up to the closing parenthesis
RECURSIVE MacroArguments(_, _, _)
MacroArguments(toks, tokenI, arguments) ==
    IF ~expectToken(toks, tokenI)
    THEN [err |-> "Preprocessor::_macro() - Expected macro header.",
          tokenI |-> tokenI, arguments |-> arguments]
    ELSE IF isToken(toks, tokenI, {"CLOSE_PARANTHESIS"})
    THEN [err |-> "", tokenI |-> tokenI, arguments |-> arguments]
    ELSE
      LET nameI == skipTokensNL(toks, tokenI)
          e1 == consume(toks, nameI, {"SYMBOL"},
                        "Preprocessor::_macro() - Expected argument name.")
          colonI == skipTokensNL(toks, nameI + 1)
          typeI == skipTokensNL(toks, colonI + 1)
          e2 == consume(toks, typeI, VARIABLE_TYPES,
                        "Preprocessor::_macro() - Expected argument type")
          typed == expectToken(toks, colonI) /\ isToken(toks, colonI, {"COLON"})
          commaI == IF typed THEN skipTokensNL(toks, typeI + 1) ELSE colonI
          args == Append(arguments,
                         [name |-> At(toks, nameI).value,
                          type |-> IF typed THEN At(toks, typeI).type ELSE "UNKNOWN"])
      IN IF e1 # "" THEN [err |-> e1, tokenI |-> nameI, arguments |-> arguments]
         ELSE IF ~expectToken(toks, colonI)
         THEN [err |-> DefaultErrorMsg, tokenI |-> colonI, arguments |-> arguments]
         ELSE IF typed /\ e2 # ""
         THEN [err |-> e2, tokenI |-> typeI, arguments |-> arguments]
         ELSE IF ~expectToken(toks, commaI)
         THEN [err |-> DefaultErrorMsg, tokenI |-> commaI, arguments |-> arguments]
         ELSE MacroArguments(toks,
                             IF isToken(toks, commaI, {"COMMA"}) THEN commaI + 1
                             ELSE commaI,
                             args)

\* what _macro, _invoke and _macret hand back: the outcome for the loop, and
\* m_macros and m_macroStack
MacroOutcome(r, macros, stack) == [r |-> r, macros |-> macros, stack |-> stack]

\* a check for an earlier definition that never finds one
MacroDefined_Never(macros, macro) == FALSE
\* _macro, "check if macro declaration is unique"
MacroDefined(macros, macro) == header(macro) \in DOMAIN macros

\* Preprocessor::_macro
_macro(toks, syms, macros, stack, tokenI) ==
    LET nameI == skipTokens(toks, tokenI + 1)
        e1 == consume(toks, nameI, {"SYMBOL"},
                      "Preprocessor::_macro() - Expected macro name.")
        openI == skipTokensNL(toks, nameI + 1)
        e2 == consume(toks, openI, {"OPEN_PARANTHESIS"},
                      "Preprocessor::_macro() - Expected '('.")
        parsed == MacroArguments(toks, openI + 1, <<>>)
        colonI == skipTokensNL(toks, parsed.tokenI + 1)
        returns == expectToken(toks, colonI) /\ isToken(toks, colonI, {"COLON"})
        typeI == skipTokensNL(toks, colonI + 1)
        e3 == consume(toks, typeI, VARIABLE_TYPES,
                      "Preprocessor::_macro() - Expected return type.")
        bodyI == skipTokensNL(toks, IF returns THEN typeI + 1 ELSE colonI)
        endI == FindType(toks, bodyI, {"PREPROCESSOR_MACEND"})
        fail(err, at) == MacroOutcome(Thrown(err, toks, at, syms, ""), macros, stack)
    IN IF e1 # "" THEN fail(e1, nameI)
       ELSE IF e2 # "" THEN fail(e2, openI)
       ELSE IF parsed.err # "" THEN fail(parsed.err, parsed.tokenI)
       ELSE IF ~expectToken(toks, colonI) THEN fail(DefaultErrorMsg, colonI)
       ELSE IF returns /\ e3 # "" THEN fail(e3, typeI)
       ELSE IF ~expectToken(toks, endI)
       THEN fail("Preprocessor::_macro() - Expected macro definition.", endI)
       ELSE
         LET macro == Macro(At(toks, nameI).value, parsed.arguments,
                            IF returns THEN At(toks, typeI).type ELSE "UNKNOWN",
                            SubSeq(toks, bodyI + 1, endI))
         IN IF MacroDefined(macros, macro)
            THEN MacroOutcome(Thrown("Preprocessor::_macro() - Macro already defined",
                                     toks, endI + 1, syms, macro.name),
                              macros, stack)
            ELSE MacroOutcome(Outcome("", toks, endI + 1, syms, macro.name,
                                      FALSE, "none"),
                              MapInsert(macros, header(macro), macro), stack)

\* Preprocessor::_macend
_macend(toks, syms, macros, stack, tokenI) ==
    MacroOutcome(Thrown("Preprocessor::_macend() - Unexpected macro end token.",
                        toks, tokenI, syms, ""),
                 macros, stack)

\* Tokenizer::VARIABLE_TYPE_TO_NAME_MAP: the type tags as they are written
VARIABLE_TYPE_TO_NAME_MAP ==
    [t \in {"VARIABLE_TYPE_BYTE", "VARIABLE_TYPE_DBYTE", "VARIABLE_TYPE_WORD",
            "VARIABLE_TYPE_DWORD"} |->
        CASE t = "VARIABLE_TYPE_BYTE" -> "BYTE"
          [] t = "VARIABLE_TYPE_DBYTE" -> "DBYTE"
          [] t = "VARIABLE_TYPE_WORD" -> "WORD"
          [] t = "VARIABLE_TYPE_DWORD" -> "DWORD"]
\* std::map::at of a key that is not in the map
OutOfRange == "std::out_of_range"

Equ == Token("ASSEMBLER_EQU", ".equ")
Scope == Token("ASSEMBLER_SCOPE", ".scope")
Scend == Token("ASSEMBLER_SCEND", ".scend")
Colon == Token("COLON", ":")
Comma == Token("COMMA", ",")
Open == Token("OPEN_PARANTHESIS", "(")
Close == Token("CLOSE_PARANTHESIS", ")")
Plus == Token("OPERATOR_ADDITION", "+")
TypeTag(type) == Token(type, VARIABLE_TYPE_TO_NAME_MAP[type])

\* Tokenizer::tokenize(format(".equ {} ", name))
EquHead(name) == IF name = "" THEN <<Equ, SP, SP>> ELSE <<Equ, SP, Sym(name), SP>>
\* Tokenizer::tokenize(format(" : {}\n", VARIABLE_TYPE_TO_NAME_MAP.at(type)))
TypeTail(type) == <<SP, Colon, SP, TypeTag(type), NL>>
\* Tokenizer::tokenize(format(".equ {} 0 : {}\n", name, VARIABLE_TYPE_TO_NAME_MAP.at(type)))
EquZero(name, type) == EquHead(name) \o <<Num("0")>> \o TypeTail(type)

\* Preprocessor::macrosWithHeader: the macros of that name and number of
\* arguments, in the order of the map
macrosWithHeader(macros, macroName, arguments) ==
    IF <<macroName, Len(arguments)>> \in DOMAIN macros
    THEN <<macros[<<macroName, Len(arguments)>>]>>
    ELSE <<>>

\* _invoke, "parse arguments": the loop up to the closing parenthesis
RECURSIVE InvokeArguments(_, _, _)
InvokeArguments(toks, tokenI, arguments) ==
    IF ~expectToken(toks, tokenI)
    THEN [err |-> "Preprocessor::_invoke() - Expected ')'.",
          tokenI |-> tokenI, arguments |-> arguments]
    ELSE IF isToken(toks, tokenI, {"CLOSE_PARANTHESIS"})
    THEN [err |-> "", tokenI |-> tokenI, arguments |-> arguments]
    ELSE
      LET fromI == skipTokensNL(toks, tokenI)
          toI == FindType(toks, fromI,
                          {"COMMA", "CLOSE_PARANTHESIS", "WHITESPACE_NEWLINE"})
      IN IF ~expectToken(toks, toI)
         THEN [err |-> "Preprocessor::_invoke() - Expected ')'.",
               tokenI |-> toI, arguments |-> arguments]
         ELSE InvokeArguments(toks,
                              IF isToken(toks, toI, {"COMMA"}) THEN toI + 1 ELSE toI,
                              Append(arguments, SubSeq(toks, fromI + 1, toI)))

\* _invoke, the ".equ argname argval" statements of the arguments from the
\* i-th on
RECURSIVE ArgumentEquates(_, _, _)
ArgumentEquates(macro, arguments, i) ==
    IF i > Len(arguments) THEN <<>>
    ELSE EquHead(macro.arguments[i].name) \o arguments[i]
         \o TypeTail(macro.arguments[i].type)
         \o ArgumentEquates(macro, arguments, i + 1)

\* _invoke, expanded_macro_invoke
ExpandedMacroInvoke(macro, arguments, hasOutput, outputSymbol) ==
    (IF hasOutput THEN EquZero(outputSymbol, macro.returnType) ELSE <<>>)
    \o <<Scope, NL>>
    \o ArgumentEquates(macro, arguments, 1)
    \o macro.definition
    \o <<NL, Scend>>

\* the types _invoke looks up in VARIABLE_TYPE_TO_NAME_MAP
InvokeTypes(macro, hasOutput) ==
    (IF hasOutput THEN {macro.returnType} ELSE {})
    \cup {macro.arguments[i].type : i \in DOMAIN macro.arguments}

\* Preprocessor::_invoke
_invoke(toks, syms, macros, stack, tokenI) ==
    LET nameI == skipTokens(toks, tokenI + 1)
        e1 == consume(toks, nameI, {"SYMBOL"},
                      "Preprocessor::_invoke() - Expected macro name.")
        openI == skipTokensNL(toks, nameI + 1)
        e2 == consume(toks, openI, {"OPEN_PARANTHESIS"},
                      "Preprocessor::_invoke() - Expected '('.")
        parsed == InvokeArguments(toks, openI + 1, <<>>)
        outI == skipTokensNL(toks, parsed.tokenI + 1)
        hasOutput == isToken(toks, outI, {"SYMBOL"})
        outputSymbol == IF hasOutput THEN At(toks, outI).value ELSE ""
        endI == IF hasOutput THEN outI + 1 ELSE outI
        macroName == At(toks, nameI).value
        possibleMacros == macrosWithHeader(macros, macroName, parsed.arguments)
        macro == possibleMacros[1]
        fail(err, at) == MacroOutcome(Thrown(err, toks, at, syms, ""), macros, stack)
    IN IF e1 # "" THEN fail(e1, nameI)
       ELSE IF e2 # "" THEN fail(e2, openI)
       ELSE IF parsed.err # "" THEN fail(parsed.err, parsed.tokenI)
       ELSE IF ~expectToken(toks, outI) THEN fail(DefaultErrorMsg, outI)
       ELSE IF Len(possibleMacros) = 0
       THEN fail("Preprocessor::_invoke() - Macro does not exist", endI)
       ELSE IF ~(InvokeTypes(macro, hasOutput) \subseteq DOMAIN VARIABLE_TYPE_TO_NAME_MAP)
       THEN fail(OutOfRange, endI)
       ELSE MacroOutcome(
              Outcome("",
                      Insert(toks, endI,
                             ExpandedMacroInvoke(macro, parsed.arguments,
                                                 hasOutput, outputSymbol)),
                      endI, syms, macroName, TRUE, "none"),
              macros,
              Append(stack, [first |-> outputSymbol, second |-> macro]))

\* a scan that goes past the .scend that ends the macro's scope
MacretScan_PastScend(toks, tokenI, level) ==
    LET scendI == FindType(toks, tokenI, {"ASSEMBLER_SCEND"})
    IN IF scendI < Len(toks) THEN [tokenI |-> scendI + 1, level |-> 0]
       ELSE [tokenI |-> scendI, level |-> 1]
\* _macret, the scan after the return value: the cursor and the relative
\* scope level the loop ends with
RECURSIVE MacretScan(_, _, _)
MacretScan(toks, tokenI, level) ==
    IF tokenI >= Len(toks) THEN [tokenI |-> tokenI, level |-> level]
    ELSE LET l == IF isToken(toks, tokenI, {"ASSEMBLER_SCOPE"}) THEN level + 1
                  ELSE IF isToken(toks, tokenI, {"ASSEMBLER_SCEND"}) THEN level - 1
                  ELSE level
         IN IF l = 0 THEN [tokenI |-> tokenI + 1, level |-> l]
            ELSE MacretScan(toks, tokenI + 1, l)

\* a check of the stack that never finds it empty
StrayMacret_Unchecked(stack) == FALSE
\* _macret, "if (m_macroStack.empty())"
StrayMacret(stack) == stack = <<>>
\* m_macroStack.top(); the handler does not get to it with an empty stack
NoFrame == [first |-> "", second |-> Macro("", <<>>, "UNKNOWN", <<>>)]
top(stack) == IF stack = <<>> THEN NoFrame ELSE stack[Len(stack)]

\* Preprocessor::_macret
_macret(toks, syms, macros, stack, tokenI) ==
    LET valueI == skipTokens(toks, tokenI + 1)
        frame == top(stack)
        doesMacroReturn == frame.second.returnType # "UNKNOWN"
        lineI == IF doesMacroReturn
                 THEN FindType(toks, valueI, {"WHITESPACE_NEWLINE"}) ELSE valueI
        return_value == SubSeq(toks, valueI + 1, lineI)
        scan == MacretScan(toks, lineI, 0)
        set_return_statement ==
            EquHead(frame.first) \o return_value \o TypeTail(frame.second.returnType)
        fail(err, at) == MacroOutcome(Thrown(err, toks, at, syms, ""), macros, stack)
    IN IF StrayMacret(stack)
       THEN fail("Preprocessor::_macret() - Unexpected macret token.", valueI)
       ELSE IF doesMacroReturn /\ ~expectToken(toks, lineI)
       THEN fail(DefaultErrorMsg, lineI)
       ELSE IF scan.level # 0
       THEN fail("Preprocessor::_macret() - Unclosed scope.", scan.tokenI)
       ELSE IF doesMacroReturn
               /\ frame.second.returnType \notin DOMAIN VARIABLE_TYPE_TO_NAME_MAP
       THEN fail(OutOfRange, scan.tokenI)
       ELSE MacroOutcome(
              Outcome("",
                      IF doesMacroReturn
                      THEN Insert(toks, scan.tokenI, set_return_statement)
                      ELSE toks,
                      scan.tokenI, syms, frame.first, doesMacroReturn, "none"),
              macros,
              SubSeq(stack, 1, Len(stack) - 1))

----------------------------------------------------------------------------
(* The preprocessor: the source texts it is run on *)

MaxAlts == 2
MaxItems == 3

\* lines of source text, as the tokenizer hands them over
DefineLine(s, v) == <<Directive("PREPROCESSOR_DEFINE"), SP, Sym(s), SP, Num(v), NL>>
UndefLine(s) == <<Directive("PREPROCESSOR_UNDEF"), SP, Sym(s), NL>>
CondLine(type, s) == <<Directive(type), SP, Sym(s), NL>>
ElseLine == <<Directive("PREPROCESSOR_ELSE"), NL>>
EndifLine == <<Directive("PREPROCESSOR_ENDIF"), NL>>
TextLine(s) == <<Sym(s), NL>>

\* "#ifdef s / yes / #else / no / #endif"
IfElseLines(s, yes, no) ==
    CondLine("PREPROCESSOR_IFDEF", s) \o TextLine(yes) \o ElseLine
        \o TextLine(no) \o EndifLine

\* a conditional chain: #define lines for the symbols of defs (and for N when
\* the nested chain is to be satisfied), the opener conds[1] and its block B1,
\* which starts with a nested if/else chain on N unless nest = "none", the
\* alternates conds[2..] and their blocks B2.., an #else block BE when
\* hasElse, #endif, and a line Z
CondSymbols == {"X", "Y"}
OpenerConds == {[type |-> t, sym |-> x] :
                   t \in {"PREPROCESSOR_IFDEF", "PREPROCESSOR_IFNDEF"}, x \in CondSymbols}
AlternateConds == {[type |-> t, sym |-> x] :
                   t \in {"PREPROCESSOR_ELSEDEF", "PREPROCESSOR_ELSENDEF"}, x \in CondSymbols}
BlockMarker(k) == <<"B1", "B2", "B3", "B4", "B5">>[k]
ChainPrograms ==
    {[family |-> "chain", defs |-> d, nest |-> n, conds |-> <<o>> \o a,
      hasElse |-> e, items |-> <<>>] :
        d \in SUBSET CondSymbols, n \in {"none", "defined", "undefined"},
        o \in OpenerConds,
        a \in UNION {[1 .. k -> AlternateConds] : k \in 0 .. MaxAlts},
        e \in BOOLEAN}

\* "#ifequ s "1" / yes / #else / no / #endif": TOKEN_SPEC has no pattern for
\* #ifequ, so that it is read as "#" and the symbol "ifequ"
IfEquLines(s, yes, no) ==
    <<Token("NUMBER_SIGN", "#"), Sym("ifequ"), SP, Sym(s), SP,
      Token("LITERAL_STRING", "\"1\""), NL>>
        \o TextLine(yes) \o ElseLine \o TextLine(no) \o EndifLine

\* chains on X, with or without #else, whose first block starts with a nested
\* #ifequ chain (family "compare"), or that lack their #endif (family "open")
NestedComparePrograms ==
    {[family |-> "compare", defs |-> d, nest |-> "equ", conds |-> <<o>>,
      hasElse |-> e, items |-> <<>>] :
        d \in SUBSET {"X"}, o \in {c \in OpenerConds : c.sym = "X"}, e \in BOOLEAN}
UnclosedPrograms ==
    {[family |-> "open", defs |-> d, nest |-> "none", conds |-> <<o>>,
      hasElse |-> e, items |-> <<>>] :
        d \in SUBSET {"X"}, o \in {c \in OpenerConds : c.sym = "X"}, e \in BOOLEAN}

RECURSIVE AlternateLines(_, _)
AlternateLines(conds, k) ==
    IF k > Len(conds) THEN <<>>
    ELSE CondLine(conds[k].type, conds[k].sym) \o TextLine(BlockMarker(k))
            \o AlternateLines(conds, k + 1)

ChainTokens(p) ==
    (IF "X" \in p.defs THEN DefineLine("X", "1") ELSE <<>>)
    \o (IF "Y" \in p.defs THEN DefineLine("Y", "1") ELSE <<>>)
    \o (IF p.nest = "defined" THEN DefineLine("N", "1") ELSE <<>>)
    \o CondLine(p.conds[1].type, p.conds[1].sym)
    \o (IF p.nest = "none" THEN <<>>
        ELSE IF p.nest = "equ" THEN IfEquLines("N", "NC", "ND")
        ELSE IfElseLines("N", "NC", "ND"))
    \o TextLine(BlockMarker(1))
    \o AlternateLines(p.conds, 2)
    \o (IF p.hasElse THEN ElseLine \o TextLine("BE") ELSE <<>>)
    \o (IF p.family = "open" THEN <<>> ELSE EndifLine)
    \o TextLine("Z")

\* "p : WORD" in a macro header
WordParam(p) == <<Sym(p), SP, Colon, SP, TypeTag("VARIABLE_TYPE_WORD")>>
\* "#macret expr" on a line
MacretLine(expr) ==
    <<Directive("PREPROCESSOR_MACRET")>>
    \o (IF expr = <<>> THEN <<>> ELSE <<SP>> \o expr) \o <<NL>>
\* "#invoke name(args) out" on a line
InvokeLine(name, args, out) ==
    <<Directive("PREPROCESSOR_INVOKE"), SP, Sym(name), Open>> \o args \o <<Close>>
    \o (IF out = "" THEN <<>> ELSE <<SP, Sym(out)>>) \o <<NL>>

\* a text of up to MaxItems of these pieces
ItemTokens ==
    [defX1 |-> DefineLine("X", "1"),
     defX2 |-> DefineLine("X", "2"),
     undefX |-> UndefLine("X"),
     undefY |-> UndefLine("Y"),
     useX |-> TextLine("X"),
     probeX |-> IfElseLines("X", "T", "F"),
     scope |-> <<Token("ASSEMBLER_SCOPE", ".scope"), NL>>,
     scend |-> <<Token("ASSEMBLER_SCEND", ".scend"), NL>>,
     spaceA |-> <<SP, Sym("A"), NL>>,
     \* "#define Y 7", "#define X Y b", "#define X" and "#define D #undef X"
     defY7 |-> DefineLine("Y", "7"),
     defXYb |-> <<Directive("PREPROCESSOR_DEFINE"), SP, Sym("X"), SP, Sym("Y"),
                  SP, Sym("b"), NL>>,
     defXnone |-> <<Directive("PREPROCESSOR_DEFINE"), SP, Sym("X"), NL>>,
     defDundefX |-> <<Directive("PREPROCESSOR_DEFINE"), SP, Sym("D"), SP,
                      Directive("PREPROCESSOR_UNDEF"), SP, Sym("X"), NL>>,
     useD |-> TextLine("D"),
     \* "X c" on a line
     useXc |-> <<Sym("X"), SP, Sym("c"), NL>>,
     \* "A" on a line, an empty line, "A" after a tab
     lineA |-> TextLine("A"),
     blank |-> <<NL>>,
     tabA |-> <<TAB, Sym("A"), NL>>,
     \* "#macro inc(a : WORD) : WORD", " #macret a + 1", "#macend"
     macInc |-> <<Directive("PREPROCESSOR_MACRO"), SP, Sym("inc"), Open>>
                \o WordParam("a") \o <<Close>> \o TypeTail("VARIABLE_TYPE_WORD")
                \o <<SP>> \o MacretLine(<<Sym("a"), SP, Plus, SP, Num("1")>>)
                \o <<Directive("PREPROCESSOR_MACEND"), NL>>,
     \* "#macro inc(b : WORD) : WORD", "#macret b", "#macend"
     macIncB |-> <<Directive("PREPROCESSOR_MACRO"), SP, Sym("inc"), Open>>
                 \o WordParam("b") \o <<Close>> \o TypeTail("VARIABLE_TYPE_WORD")
                 \o MacretLine(<<Sym("b")>>)
                 \o <<Directive("PREPROCESSOR_MACEND"), NL>>,
     \* "#macro inc(a : WORD, b : WORD) : WORD", "#macret a + b", "#macend"
     macInc2 |-> <<Directive("PREPROCESSOR_MACRO"), SP, Sym("inc"), Open>>
                 \o WordParam("a") \o <<Comma, SP>> \o WordParam("b")
                 \o <<Close>> \o TypeTail("VARIABLE_TYPE_WORD")
                 \o MacretLine(<<Sym("a"), SP, Plus, SP, Sym("b")>>)
                 \o <<Directive("PREPROCESSOR_MACEND"), NL>>,
     \* "#macro nop()", "A", "#macend"
     macNop |-> <<Directive("PREPROCESSOR_MACRO"), SP, Sym("nop"), Open, Close,
                  NL, Sym("A"), NL, Directive("PREPROCESSOR_MACEND"), NL>>,
     \* "#invoke inc(5) y", "#invoke inc(5)", "#invoke inc(1, 2) y",
     \* "#invoke nop()" and "#invoke nop() y"
     invInc5y |-> InvokeLine("inc", <<Num("5")>>, "y"),
     invInc5 |-> InvokeLine("inc", <<Num("5")>>, ""),
     invInc12y |-> InvokeLine("inc", <<Num("1"), Comma, SP, Num("2")>>, "y"),
     invNop |-> InvokeLine("nop", <<>>, ""),
     invNopY |-> InvokeLine("nop", <<>>, "y"),
     \* "#invoke inc(5<newline>) y", "#invoke inc((5)) y", "#invoke inc(1,<newline>2) y"
     invIncNl |-> InvokeLine("inc", <<Num("5"), NL>>, "y"),
     invIncParen |-> InvokeLine("inc", <<Open, Num("5"), Close>>, "y"),
     invInc1Nl2 |-> InvokeLine("inc", <<Num("1"), Comma, NL, Num("2")>>, "y"),
     \* "#macro wrap() : WORD", "#invoke nop()", "#macret 1", "#macend"
     macWrapNop |-> <<Directive("PREPROCESSOR_MACRO"), SP, Sym("wrap"), Open, Close>>
                    \o TypeTail("VARIABLE_TYPE_WORD")
                    \o InvokeLine("nop", <<>>, "") \o MacretLine(<<Num("1")>>)
                    \o <<Directive("PREPROCESSOR_MACEND"), NL>>,
     \* "#macro wrap() : WORD", "#invoke inc(5) z", "#macret 1", "#macend"
     macWrapInc |-> <<Directive("PREPROCESSOR_MACRO"), SP, Sym("wrap"), Open, Close>>
                    \o TypeTail("VARIABLE_TYPE_WORD")
                    \o InvokeLine("inc", <<Num("5")>>, "z") \o MacretLine(<<Num("1")>>)
                    \o <<Directive("PREPROCESSOR_MACEND"), NL>>,
     \* "#invoke wrap() y"
     invWrapY |-> InvokeLine("wrap", <<>>, "y"),
     \* "#invoke nop()" with nothing after it, not even a newline
     invNopEnd |-> <<Directive("PREPROCESSOR_INVOKE"), SP, Sym("nop"), Open, Close>>,
     \* "#macret", "#macend" and "B" on a line
     macretLine |-> MacretLine(<<>>),
     macendLine |-> <<Directive("PREPROCESSOR_MACEND"), NL>>,
     lineB |-> TextLine("B"),
     none |-> <<>>]
ItemNames == {"defX1", "defX2", "undefX", "undefY", "useX", "probeX", "scope",
              "scend", "spaceA"}
\* the pieces of the texts whose replacement lists hold symbols and directives
ExpandItemNames == {"defX1", "defY7", "defXYb", "defXnone", "defDundefX",
                    "useD", "useXc"}
\* the pieces of the texts without directives
PlainItemNames == {"lineA", "blank", "spaceA", "tabA", "scope", "scend"}
ItemPrograms(family, names) ==
    {[family |-> family, defs |-> {}, nest |-> "none", conds |-> <<>>,
      hasElse |-> FALSE, items |-> it] :
        it \in UNION {[1 .. k -> names] : k \in 1 .. MaxItems}}
LinePrograms == ItemPrograms("lines", ItemNames)
ExpandPrograms == ItemPrograms("expand", ExpandItemNames)
PlainPrograms == ItemPrograms("plain", PlainItemNames)
\* the texts with macros: up to MaxMacros definitions, then an invocation or a
\* stray directive, then one more line or none
MacroItemNames == {"macInc", "macIncB", "macInc2", "macNop"}
CallItemNames == {"invInc5y", "invInc5", "invInc12y", "invNop", "invNopY"}
StrayItemNames == {"macretLine", "macendLine"}
TrailerItemNames == {"none", "lineB", "macretLine"}
MacroPrograms ==
    {[family |-> "macro", defs |-> {}, nest |-> "none", conds |-> <<>>,
      hasElse |-> FALSE, items |-> ms \o <<c, t>>] :
        ms \in UNION {[1 .. k -> MacroItemNames] : k \in 0 .. MaxMacros},
        c \in CallItemNames \cup StrayItemNames,
        t \in TrailerItemNames}
    \* an invocation of a macro without #macret, and a directive after it
    \cup {[family |-> "macro", defs |-> {}, nest |-> "none", conds |-> <<>>,
            hasElse |-> FALSE, items |-> <<"macNop", "invNop", "defX1">>]}

\* the invocations whose argument lists hold newlines and parentheses, after
\* the definitions of inc with one and with two arguments
ArgumentItemNames == {"invIncNl", "invIncParen", "invInc1Nl2", "invInc12y"}
ArgumentPrograms ==
    {[family |-> "args", defs |-> {}, nest |-> "none", conds |-> <<>>,
      hasElse |-> FALSE, items |-> <<"macInc", "macInc2", c>>] :
        c \in ArgumentItemNames}
    \* an invocation of a macro whose body invokes a macro without #macret,
    \* or one with a #macret, before its own #macret
    \cup {[family |-> "nested", defs |-> {}, nest |-> "none", conds |-> <<>>,
            hasElse |-> FALSE, items |-> <<inner[1], inner[2], "invWrapY">>] :
              inner \in {<<"macNop", "macWrapNop">>, <<"macInc", "macWrapInc">>}}
    \* an invocation whose closing parenthesis ends the file
    \cup {[family |-> "tail", defs |-> {}, nest |-> "none", conds |-> <<>>,
            hasElse |-> FALSE, items |-> <<"macNop", "invNopEnd">>]}

RECURSIVE ItemsTokens(_, _)
ItemsTokens(items, k) ==
    IF k > Len(items) THEN <<>>
    ELSE ItemTokens[items[k]] \o ItemsTokens(items, k + 1)

\* Tokenizer::tokenize of the text p describes
tokenize(p) ==
    IF p.family \in {"chain", "compare", "open"} THEN ChainTokens(p)
    ELSE ItemsTokens(p.items, 1)

Programs ==
    ChainPrograms \cup LinePrograms \cup ExpandPrograms \cup PlainPrograms
    \cup MacroPrograms \cup NestedComparePrograms \cup UnclosedPrograms
    \cup ArgumentPrograms

----------------------------------------------------------------------------
(* The preprocessor: construction and preprocess() *)

NoIteration == [act |-> "none", type |-> "", value |-> "", sym |-> "", met |-> "none"]

\* Preprocessor::Preprocessor
Preprocessor(p) ==
    /\ prog = p
    /\ m_state = "UNPROCESSED"
    /\ m_tokens = tokenize(p)
    /\ m_symbols = EmptyMap
    /\ m_macros = EmptyMap
    /\ m_macroStack = <<>>
    /\ tokI = 0
    /\ written = <<>>
    /\ m_writer = "none"
    /\ currentIndentLevel = 0
    /\ targetIndentLevel = 0
    /\ ppc = "idle"
    /\ diag = ""
    /\ lastDefine = EmptyMap
    /\ declared = {}
    /\ everDeclared = {}
    /\ condLog = <<>>
    /\ ppLast = NoIteration
    /\ symbolsBefore = EmptyMap

\* preprocess() up to the loop: the state check, the writer on an empty file
PP_Begin ==
    /\ ppc = "idle"
    /\ m_state = "UNPROCESSED"
    /\ m_state' = "PROCESSING"
    /\ written' = <<>>
    /\ m_writer' = "open"
    /\ currentIndentLevel' = 0
    /\ targetIndentLevel' = 0
    /\ tokI' = 0
    /\ ppc' = "loop"
    /\ UNCHANGED <<m_tokens, m_symbols, m_macros, m_macroStack, diag, prog,
                   lastDefine, declared, everDeclared, condLog, ppLast,
                   symbolsBefore>>
    /\ UNCHANGED emuVars

\* FileWriter::lastByteWritten() == '\n'
LastByteIsNewline == Len(written) > 0 /\ written[Len(written)] = "\n"

InLoop == ppc = "loop" /\ tokI < Len(m_tokens)
LoopToken == m_tokens[tokI + 1]

\* "skip back to back newlines"
SkipsNewline(tok) == tok.type = "WHITESPACE_NEWLINE" /\ LastByteIsNewline
\* "update current indent level"
IndentAfter(tok) ==
    IF tok.type = "WHITESPACE_TAB" THEN currentIndentLevel + 1
    ELSE IF tok.type = "WHITESPACE_NEWLINE" THEN 0
    ELSE currentIndentLevel
\* "update target indent level", before the token is handled
TargetAfter(tok) ==
    IF tok.type = "ASSEMBLER_SCEND" THEN targetIndentLevel - 1 ELSE targetIndentLevel
\* "don't output whitespaces if a tab is expected"
SpinsOnSpace(tok) ==
    IndentAfter(tok) < TargetAfter(tok) /\ tok.type = "WHITESPACE_SPACE"
\* "append tabs": how many
TabsWritten(tok) ==
    IF /\ IndentAfter(tok) < TargetAfter(tok)
       /\ tok.type \notin {"WHITESPACE_TAB", "WHITESPACE_NEWLINE"}
    THEN TargetAfter(tok) - IndentAfter(tok)
    ELSE 0
Tabs(n) == [k \in 1 .. n |-> "\t"]

\* the iteration of the loop that drops a newline after a newline
PP_SkipNewline ==
    /\ InLoop
    /\ SkipsNewline(LoopToken)
    /\ tokI' = tokI + 1
    /\ ppLast' = [act |-> "skip", type |-> LoopToken.type,
                  value |-> LoopToken.value, sym |-> "", met |-> "none"]
    /\ symbolsBefore' = m_symbols
    /\ UNCHANGED <<m_state, m_tokens, m_symbols, m_macros, m_macroStack, written,
                   m_writer,
                   currentIndentLevel, targetIndentLevel, ppc, diag, prog, lastDefine, declared,
                   everDeclared, condLog>>
    /\ UNCHANGED emuVars

\* the iteration of the loop that meets a space where a tab is owed: it
\* continues without moving i
PP_SpinOnSpace ==
    /\ InLoop
    /\ ~SkipsNewline(LoopToken)
    /\ SpinsOnSpace(LoopToken)
    /\ ppLast' = [act |-> "spin", type |-> LoopToken.type,
                  value |-> LoopToken.value, sym |-> "", met |-> "none"]
    /\ symbolsBefore' = m_symbols
    /\ UNCHANGED <<m_state, m_tokens, tokI, m_symbols, m_macros, m_macroStack, written,
                   m_writer, currentIndentLevel, targetIndentLevel, ppc, diag, prog,
                   lastDefine, declared, everDeclared, condLog>>
    /\ UNCHANGED emuVars

\* an iteration of the loop that gets as far as the token: the tabs, the
\* outcome r of the handler or of the else branch, the strings it wrote, and
\* the read of token.type after it. token refers into the vector as it was:
\* if the vector grew and may have moved, what is read is arbitrary, and the
\* target indent level is raised or not.
Iteration(act, r, emitted) ==
    LET tok == LoopToken
        tabs == TabsWritten(tok)
    IN /\ written' = written \o Tabs(tabs) \o emitted
       /\ currentIndentLevel' = IndentAfter(tok) + tabs
       /\ m_tokens' = r.tokens
       /\ tokI' = r.tokenI
       /\ m_symbols' = r.symbols
       /\ symbolsBefore' = m_symbols
       /\ ppLast' = [act |-> act, type |-> tok.type, value |-> tok.value,
                     sym |-> r.sym, met |-> r.met]
       /\ condLog' = IF r.met = "none" THEN condLog
                     ELSE Append(condLog, [type |-> tok.type, sym |-> r.sym,
                                           met |-> r.met])
       /\ IF r.err # ""
          THEN /\ ppc' = "thrown"
               /\ diag' = r.err
               /\ targetIndentLevel' = TargetAfter(tok)
          ELSE /\ ppc' = ppc
               /\ diag' = diag
               /\ \E isScope \in IF r.inserted THEN BOOLEAN
                                 ELSE {tok.type = "ASSEMBLER_SCOPE"} :
                     targetIndentLevel' =
                         TargetAfter(tok) + (IF isScope THEN 1 ELSE 0)
       /\ UNCHANGED <<m_state, prog, m_writer>>
       /\ UNCHANGED emuVars

Handles(type) ==
    /\ InLoop
    /\ ~SkipsNewline(LoopToken)
    /\ ~SpinsOnSpace(LoopToken)
    /\ LoopToken.type = type

\* the loop reaches #define
PP_Define ==
    /\ Handles("PREPROCESSOR_DEFINE")
    /\ LET r == _define(m_tokens, m_symbols, tokI)
           h == SymbolHead(m_tokens, tokI, "")
       IN /\ Iteration("_define", r, <<>>)
          /\ IF r.err = ""
             THEN /\ declared' = declared \cup {r.sym}
                  /\ everDeclared' = everDeclared \cup {r.sym}
                  /\ lastDefine' = MapPut(lastDefine, r.sym,
                                          SubSeq(m_tokens, h.tokenI + 1, r.tokenI))
             ELSE UNCHANGED <<declared, everDeclared, lastDefine>>
    /\ UNCHANGED <<m_macros, m_macroStack>>

\* the loop reaches #undef
PP_Undefine ==
    /\ Handles("PREPROCESSOR_UNDEF")
    /\ LET r == _undefine(m_tokens, m_symbols, tokI)
       IN /\ Iteration("_undefine", r, <<>>)
          /\ declared' = IF r.err = "" THEN declared \ {r.sym} ELSE declared
          /\ UNCHANGED <<everDeclared, lastDefine, m_macros, m_macroStack>>

\* the loop reaches #ifdef
PP_Ifdef ==
    /\ Handles("PREPROCESSOR_IFDEF")
    /\ Iteration("_ifdef", _ifdef(m_tokens, m_symbols, tokI), <<>>)
    /\ UNCHANGED <<declared, everDeclared, lastDefine, m_macros, m_macroStack>>

\* the loop reaches #ifndef
PP_Ifndef ==
    /\ Handles("PREPROCESSOR_IFNDEF")
    /\ Iteration("_ifndef", _ifndef(m_tokens, m_symbols, tokI), <<>>)
    /\ UNCHANGED <<declared, everDeclared, lastDefine, m_macros, m_macroStack>>

\* the loop reaches #else
PP_Else ==
    /\ Handles("PREPROCESSOR_ELSE")
    /\ Iteration("_else", _else(m_tokens, m_symbols, tokI), <<>>)
    /\ UNCHANGED <<declared, everDeclared, lastDefine, m_macros, m_macroStack>>

\* the loop reaches #elsedef
PP_Elsedef ==
    /\ Handles("PREPROCESSOR_ELSEDEF")
    /\ Iteration("_elsedef", _elsedef(m_tokens, m_symbols, tokI), <<>>)
    /\ UNCHANGED <<declared, everDeclared, lastDefine, m_macros, m_macroStack>>

\* the loop reaches #elsendef
PP_Elsendef ==
    /\ Handles("PREPROCESSOR_ELSENDEF")
    /\ Iteration("_elsendef", _elsendef(m_tokens, m_symbols, tokI), <<>>)
    /\ UNCHANGED <<declared, everDeclared, lastDefine, m_macros, m_macroStack>>

\* the loop reaches #endif
PP_Endif ==
    /\ Handles("PREPROCESSOR_ENDIF")
    /\ Iteration("_endif", _endif(m_tokens, m_symbols, tokI), <<>>)
    /\ UNCHANGED <<declared, everDeclared, lastDefine, m_macros, m_macroStack>>

\* "replace symbol with value": the cursor passes the symbol and its
\* replacement tokens are inserted after it
ExpandsSymbol(tok) == tok.type = "SYMBOL" /\ tok.value \in DOMAIN m_symbols
\* the same, mutated: the replacement tokens are put at the end of the stream
PP_ExpandSymbol_Appends ==
    /\ InLoop
    /\ ~SkipsNewline(LoopToken)
    /\ ~SpinsOnSpace(LoopToken)
    /\ LoopToken.type \notin preprocessors
    /\ ExpandsSymbol(LoopToken)
    /\ Iteration("expand",
                 Outcome("", m_tokens \o m_symbols[LoopToken.value],
                         tokI + 1, m_symbols, LoopToken.value,
                         Len(m_symbols[LoopToken.value]) > 0, "none"),
                 <<>>)
    /\ UNCHANGED <<declared, everDeclared, lastDefine, m_macros, m_macroStack>>
PP_ExpandSymbol ==
    /\ InLoop
    /\ ~SkipsNewline(LoopToken)
    /\ ~SpinsOnSpace(LoopToken)
    /\ LoopToken.type \notin preprocessors
    /\ ExpandsSymbol(LoopToken)
    /\ Iteration("expand",
                 Outcome("", Insert(m_tokens, tokI + 1, m_symbols[LoopToken.value]),
                         tokI + 1, m_symbols, LoopToken.value,
                         Len(m_symbols[LoopToken.value]) > 0, "none"),
                 <<>>)
    /\ UNCHANGED <<declared, everDeclared, lastDefine, m_macros, m_macroStack>>

\* any other token is written out
PP_EmitToken ==
    /\ InLoop
    /\ ~SkipsNewline(LoopToken)
    /\ ~SpinsOnSpace(LoopToken)
    /\ LoopToken.type \notin preprocessors
    /\ ~ExpandsSymbol(LoopToken)
    /\ Iteration("emit",
                 Outcome("", m_tokens, tokI + 1, m_symbols, "", FALSE, "none"),
                 <<LoopToken.value>>)
    /\ UNCHANGED <<declared, everDeclared, lastDefine, m_macros, m_macroStack>>

\* the loop is over: the state is set and the writer closed
PP_End ==
    /\ ppc = "loop"
    /\ tokI >= Len(m_tokens)
    /\ m_state' = "PROCESSED_SUCCESS"
    /\ m_writer' = "closed"
    /\ ppc' = "done"
    /\ UNCHANGED <<m_tokens, tokI, m_symbols, m_macros, m_macroStack, written,
                   currentIndentLevel, targetIndentLevel, diag, prog, lastDefine, declared,
                   everDeclared, condLog, ppLast, symbolsBefore>>
    /\ UNCHANGED emuVars

\* the loop reaches a macro directive: the handler, m_macros and m_macroStack
MacroIteration(act, o) ==
    /\ Iteration(act, o.r, <<>>)
    /\ m_macros' = o.macros
    /\ m_macroStack' = o.stack
    /\ UNCHANGED <<declared, everDeclared, lastDefine>>

\* the loop reaches #macro
PP_Macro ==
    /\ Handles("PREPROCESSOR_MACRO")
    /\ MacroIteration("_macro",
                      _macro(m_tokens, m_symbols, m_macros, m_macroStack, tokI))

\* the loop reaches #macret
PP_Macret ==
    /\ Handles("PREPROCESSOR_MACRET")
    /\ MacroIteration("_macret",
                      _macret(m_tokens, m_symbols, m_macros, m_macroStack, tokI))

\* the loop reaches #macend
PP_Macend ==
    /\ Handles("PREPROCESSOR_MACEND")
    /\ MacroIteration("_macend",
                      _macend(m_tokens, m_symbols, m_macros, m_macroStack, tokI))

\* the loop reaches #invoke
PP_Invoke ==
    /\ Handles("PREPROCESSOR_INVOKE")
    /\ MacroIteration("_invoke",
                      _invoke(m_tokens, m_symbols, m_macros, m_macroStack, tokI))

NextPre ==
    \/ PP_Begin
    \/ PP_SkipNewline
    \/ PP_SpinOnSpace
    \/ PP_Define
    \/ PP_Undefine
    \/ PP_Ifdef
    \/ PP_Ifndef
    \/ PP_Else
    \/ PP_Elsedef
    \/ PP_Elsendef
    \/ PP_Endif
    \/ PP_ExpandSymbol
    \/ PP_EmitToken
    \/ PP_End
    \/ PP_Macro
    \/ PP_Macret
    \/ PP_Macend
    \/ PP_Invoke

----------------------------------------------------------------------------
(* The two systems, each on its own *)

\* no preprocessor is run
NoPreprocessor ==
    Preprocessor([family |-> "lines", defs |-> {}, nest |-> "none",
                  conds |-> <<>>, hasElse |-> FALSE, items |-> <<>>])

\* no memory is accessed
NoMemory ==
    /\ InitRAM(W(0), W(3), 0)
    /\ rex = NoReadException
    /\ wex = NoWriteException
    /\ memRet = W(0)
    /\ memOp = NoOp
    /\ memPrevOp = NoOp
    /\ dataBefore = data
    /\ memOob = FALSE
    /\ memOps = 0
    /\ accessor = NoAccessor(WordBytes)

----------------------------------------------------------------------------
(* The software interrupts: software_interrupt.cpp *)

\* the registers the handlers take their arguments from
ArgRegs == 0 .. 4
\* Emulator32bit::read_reg
read_reg(reg_id) == _x[reg_id]
\* (byte) w and (bool) w of a word w
ToByte(w) == LowByte(w)
ToBool(w) == w # W(0)
\* test_bit(_pstate, id): the flags by the number of their bit
FlagOfBit == <<"N", "Z", "C", "V">>
test_bit(pstate, id) == id + 1 \in DOMAIN FlagOfBit /\ pstate[FlagOfBit[id + 1]]
\* check_cond(_pstate, cond)
Conds == {"AL", "EQ", "NE"}
check_cond(pstate, cond) ==
    CASE cond = "AL" -> TRUE
      [] cond = "EQ" -> pstate.Z
      [] cond = "NE" -> ~pstate.Z
\* system_bus.read_byte: the byte of the region at that address
read_byte(address) == IF address \in DOMAIN data THEN data[address] ELSE 0

\* "for (byte i = 0; i < size; i++) { val <<= 8; val += read_byte(mem_addr + i) }"
RECURSIVE ReadUpwards(_, _, _, _)
ReadUpwards(mem_addr, size, i, val) ==
    IF i >= size THEN val
    ELSE ReadUpwards(mem_addr, size, i + 1,
                     WordAdd(Shl8(val), read_byte(WordAdd(mem_addr, i))))
\* "for (int i = size - 1; i >= 0; i--) { val <<= 8; val += read_byte(mem_addr + i) }"
RECURSIVE ReadDownwards(_, _, _)
ReadDownwards(mem_addr, i, val) ==
    IF i < 0 THEN val
    ELSE ReadDownwards(mem_addr, i - 1,
                       WordAdd(Shl8(val), read_byte(WordAdd(mem_addr, i))))
\* the value _emu_printm and _emu_assertm assemble
MemoryValue(mem_addr, size, little_endian) ==
    IF little_endian THEN ReadUpwards(mem_addr, size, 0, W(0))
    ELSE ReadDownwards(mem_addr, size - 1, W(0))

\* a range check that has no upper end
InRange_NoMax(val, min_value, max_value) == WordLE(min_value, val)
\* "val >= min_value && val <= max_value"
InRange(val, min_value, max_value) ==
    WordLE(min_value, val) /\ WordLE(val, max_value)

\* what a handler did: its name, its arguments, the value it printed or
\* tested, and the diagnostic it halted with
Handled(handler, args, val, halt) ==
    [handler |-> handler, args |-> args, val |-> val, halt |-> halt]
NoSwi == Handled("none", <<>>, W(0), "")

_emu_print == Handled("_emu_print", <<>>, W(0), "")
_emu_printr(reg_id) == Handled("_emu_printr", <<reg_id>>, read_reg(reg_id), "")
_emu_printm(mem_addr, size, little_endian) ==
    Handled("_emu_printm", <<mem_addr, size, little_endian>>,
            MemoryValue(mem_addr, size, little_endian), "")
_emu_printp == Handled("_emu_printp", <<>>, W(0), "")
_emu_assertr(reg_id, min_value, max_value) ==
    Handled("_emu_assertr", <<reg_id, min_value, max_value>>, read_reg(reg_id),
            IF InRange(read_reg(reg_id), min_value, max_value) THEN ""
            ELSE "Expected register to be between")
_emu_assertm(mem_addr, size, little_endian, min_value, max_value) ==
    LET val == MemoryValue(mem_addr, size, little_endian)
    IN Handled("_emu_assertm",
               <<mem_addr, size, little_endian, min_value, max_value>>, val,
               IF InRange(val, min_value, max_value) THEN ""
               ELSE "Expected value at memory address to be between")
_emu_assertp(p_state_id, expected_value) ==
    Handled("_emu_assertp", <<p_state_id, expected_value>>, W(0),
            IF test_bit(_pstate, p_state_id) = expected_value THEN ""
            ELSE "Expected PSTATE to be")
InvalidSyscall == Handled("none", <<>>, W(0), "INVALID SYSCALL NUMBER")

\* _swi, the switch on the syscall number
Syscall(id, arg0, arg1, arg2, arg3, arg4) ==
    CASE id = W(1000) -> _emu_print
      [] id = W(1001) -> _emu_printr(ToByte(arg0))
      [] id = W(1002) -> _emu_printm(arg0, ToByte(arg1), ToBool(arg2))
      [] id = W(1003) -> _emu_printp
      [] id = W(1010) -> _emu_assertr(ToByte(arg0), arg1, arg2)
      [] id = W(1011) -> _emu_assertm(arg0, ToByte(arg1), ToBool(arg2), arg3, arg4)
      [] id = W(1012) -> _emu_assertp(ToByte(arg0), ToBool(arg1))
      [] OTHER -> InvalidSyscall

\* Emulator32bit::_swi of an instruction with condition cond
_swi(cond) ==
    /\ halted = ""
    /\ swiOps < MaxSwi
    /\ swiOps' = swiOps + 1
    /\ swiLast' = IF check_cond(_pstate, cond)
                  THEN Syscall(NR, _x[0], _x[1], _x[2], _x[3], _x[4])
                  ELSE NoSwi
    /\ halted' = swiLast'.halt
    /\ UNCHANGED <<_x, NR, _pstate, instr, ran>>
    /\ UNCHANGED memVars
    /\ UNCHANGED ppVars

NextSwi == \E cond \in Conds : _swi(cond)

\* the syscall numbers, the register values and the memory of the runs
NRInputs ==
    {W(1000), W(1001), W(1002), W(1003), W(1010), W(1011), W(1012), W(1020),
     W(1021), W(0), W(1022)}
RegInputs ==
    [x0 |-> {W(0), W(1), W(3), W(259)},
     x1 |-> {W(1), W(2), W(4)},
     x2 |-> {W(0), W(1), WMAX},
     x3 |-> {W(0), W(2), WB(128, 0, 0, 0), WB(17, 34, 51, 68)},
     x4 |-> {W(1), WMAX}]
SwiImage == <<17, 34, 51, 68, 85, 102, 119, 136>>

\* before run(): no instruction was executed
NoInstr == [op |-> "none"]

\* an emulator with its registers and flags set, before any swi
Emulator(x0, x1, x2, x3, x4, nr, z) ==
    /\ _x = [r \in ArgRegs |-> <<x0, x1, x2, x3, x4>>[r + 1]]
    /\ NR = nr
    /\ _pstate = [N |-> FALSE, Z |-> z, C |-> FALSE, V |-> FALSE]
    /\ swiLast = NoSwi
    /\ halted = ""
    /\ swiOps = 0
    /\ instr = NoInstr
    /\ ran = 0
\* no instruction is executed
NoEmulator == Emulator(W(0), W(0), W(0), W(0), W(0), W(0), FALSE)
\* the memory the bus reads
SwiMemory ==
    /\ InitROM(W(0), W(7), SwiImage)
    /\ rex = NoReadException
    /\ wex = NoWriteException
    /\ memRet = W(0)
    /\ memOp = NoOp
    /\ memPrevOp = NoOp
    /\ dataBefore = data
    /\ memOob = FALSE
    /\ memOps = 0
    /\ accessor = NoAccessor(WordBytes)

----------------------------------------------------------------------------
(* The instructions the instruction tests execute: rsc, umull, smull *)

\* Emulator32bit::asm_format_o with an immediate operand: the fields of the
\* instruction word
asm_format_o(op, s, xd, xn, imm14) ==
    [op |-> op, s |-> s, xd |-> xd, xn |-> xn, imm |-> TRUE, imm14 |-> imm14,
     xm |-> 0, shift |-> "SHIFT_LSL", imm5 |-> 0]
\* Emulator32bit::asm_format_o with a shifted register operand
asm_format_o_reg(op, s, xd, xn, xm, shift, imm5) ==
    [op |-> op, s |-> s, xd |-> xd, xn |-> xn, imm |-> FALSE, imm14 |-> 0,
     xm |-> xm, shift |-> shift, imm5 |-> imm5]
\* Emulator32bit::asm_format_o2
asm_format_o2(op, s, xlo, xhi, xn, xm) ==
    [op |-> op, s |-> s, xlo |-> xlo, xhi |-> xhi, xn |-> xn, xm |-> xm]

\* Emulator32bit::set_NZCV
set_NZCV(N, Z, C, V) == [N |-> N, Z |-> Z, C |-> C, V |-> V]
\* bit 31 of a word
Bit31(w) == w[4] >= ByteMod \div 2
\* a flag as 0 or 1
FlagBit(f) == IF f THEN 1 ELSE 0

\* operand two of an instruction in format O: the immediate, or the register
\* shifted left by imm5 = 0
operand2(x, i) == IF i.imm THEN W(i.imm14) ELSE x[i.xm]

\* a - b - c on words, c the incoming carry flag: the digits of the result
\* and the borrow out of bit 31
SubWithCarry_Complement(a, b, c) ==
    LET t1 == a[1] - b[1] - (1 - c)
        t2 == a[2] - b[2] + Carry(t1)
        t3 == a[3] - b[3] + Carry(t2)
        t4 == a[4] - b[4] + Carry(t3)
    IN  [val |-> <<t1 % ByteMod, t2 % ByteMod, t3 % ByteMod, t4 % ByteMod>>,
         borrow |-> Carry(t4) < 0]
SubWithCarry(a, b, c) ==
    LET t1 == a[1] - b[1] - c
        t2 == a[2] - b[2] + Carry(t1)
        t3 == a[3] - b[3] + Carry(t2)
        t4 == a[4] - b[4] + Carry(t3)
    IN  [val |-> <<t1 % ByteMod, t2 % ByteMod, t3 % ByteMod, t4 % ByteMod>>,
         borrow |-> Carry(t4) < 0]

\* the flags a subtraction a - b - c with result d sets
SubFlags_NoBorrow(a, b, d) ==
    set_NZCV(Bit31(d.val), d.val = W(0), ~d.borrow,
             Bit31(a) # Bit31(b) /\ Bit31(d.val) # Bit31(a))
SubFlags(a, b, d) ==
    set_NZCV(Bit31(d.val), d.val = W(0), d.borrow,
             Bit31(a) # Bit31(b) /\ Bit31(d.val) # Bit31(a))

\* the flags after an instruction: kept unless the S bit is set
FlagsAfter_Always(s, pstate, flags) == flags
FlagsAfter(s, pstate, flags) == IF s THEN flags ELSE pstate

\* Emulator32bit::_rsc: xd = operand two - xn - C
_rsc(i) ==
    LET a == operand2(_x, i)
        b == _x[i.xn]
        d == SubWithCarry(a, b, FlagBit(_pstate.C))
    IN  /\ _x' = [_x EXCEPT ![i.xd] = d.val]
        /\ _pstate' = FlagsAfter(i.s, _pstate, SubFlags(a, b, d))

\* a word as a 64-bit value, least significant digit first
ZeroExtend(w) == w \o <<0, 0, 0, 0>>
SignExtend_Zero(w) == w \o <<0, 0, 0, 0>>
SignExtend(w) ==
    w \o (IF Bit31(w) THEN <<ByteMod - 1, ByteMod - 1, ByteMod - 1, ByteMod - 1>>
                      ELSE <<0, 0, 0, 0>>)

\* the sum of the digit products of a and b that fall on digit k
Column(a, b, k) ==
    LET sum[n \in 0 .. k] == IF n = 0 THEN 0 ELSE sum[n - 1] + a[n] * b[k + 1 - n]
    IN  sum[k]

\* (dword) a * b of two 64-bit values: the eight digits of the product
\* modulo 2^64
Product(a, b) ==
    LET c1 == Column(a, b, 1)
        c2 == Column(a, b, 2) + c1 \div ByteMod
        c3 == Column(a, b, 3) + c2 \div ByteMod
        c4 == Column(a, b, 4) + c3 \div ByteMod
        c5 == Column(a, b, 5) + c4 \div ByteMod
        c6 == Column(a, b, 6) + c5 \div ByteMod
        c7 == Column(a, b, 7) + c6 \div ByteMod
        c8 == Column(a, b, 8) + c7 \div ByteMod
    IN  <<c1 % ByteMod, c2 % ByteMod, c3 % ByteMod, c4 % ByteMod,
          c5 % ByteMod, c6 % ByteMod, c7 % ByteMod, c8 % ByteMod>>

\* the two words of a 64-bit value
LoWord(d) == SubSeq(d, 1, WordBytes)
HiWord(d) == SubSeq(d, WordBytes + 1, 2 * WordBytes)

\* the flags a long multiply sets: N and Z of the 64-bit product, C and V kept
MullFlags_LowWord(pstate, d) ==
    set_NZCV(Bit31(LoWord(d)), LoWord(d) = W(0), pstate.C, pstate.V)
MullFlags(pstate, d) ==
    set_NZCV(Bit31(HiWord(d)), d = ZeroExtend(W(0)), pstate.C, pstate.V)

\* xlo and xhi after a long multiply with product d
mull(i, d) ==
    /\ _x' = [_x EXCEPT ![i.xlo] = LoWord(d), ![i.xhi] = HiWord(d)]
    /\ _pstate' = FlagsAfter(i.s, _pstate, MullFlags(_pstate, d))

\* Emulator32bit::_umull
_umull(i) == mull(i, Product(ZeroExtend(_x[i.xn]), ZeroExtend(_x[i.xm])))
\* Emulator32bit::_smull
_smull(i) == mull(i, Product(SignExtend(_x[i.xn]), SignExtend(_x[i.xm])))

\* Emulator32bit::run(1), the instruction at PC being i
run(i, execute(_)) ==
    /\ ran < MaxRun
    /\ ran' = ran + 1
    /\ instr' = i
    /\ execute(i)
    /\ UNCHANGED <<NR, swiLast, halted, swiOps>>
    /\ UNCHANGED memVars
    /\ UNCHANGED ppVars

\* the instructions of the tests
RscImmediates == {0, 11}
RscInstructions ==
    {asm_format_o("_op_rsc", s, 0, 1, imm14) : s \in BOOLEAN, imm14 \in RscImmediates}
    \cup {asm_format_o_reg("_op_rsc", s, 0, 1, 2, "SHIFT_LSL", 0) : s \in BOOLEAN}
UmullInstructions == {asm_format_o2("_op_umull", s, 0, 1, 2, 3) : s \in BOOLEAN}
SmullInstructions == {asm_format_o2("_op_smull", s, 0, 1, 2, 3) : s \in BOOLEAN}

RunRsc == \E i \in RscInstructions : run(i, _rsc)
RunUmull == \E i \in UmullInstructions : run(i, _umull)
RunSmull == \E i \in SmullInstructions : run(i, _smull)

NextCpu == RunRsc \/ RunUmull \/ RunSmull

\* the values the tests write to x1, x2 and x3 before run(1)
Minus2 == WordSub(W(0), W(2))
MinInt == WB(ByteMod \div 2, 0, 0, 0)
MaxInt == WB(ByteMod \div 2 - 1, ByteMod - 1, ByteMod - 1, ByteMod - 1)
TestRegs ==
    [x1 |-> {W(0), W(1), W(2), W(9), Minus2},
     x2 |-> {W(0), W(2), W(11), Minus2, MaxInt, MinInt, WMAX},
     x3 |-> {W(4), WMAX}]

\* cpu->write_reg(1, x1), (2, x2), (3, x3) and cpu->set_NZCV(n, z, c, v) on a
\* new Emulator32bit
TestSetup(x1, x2, x3, n, z, c, v) ==
    /\ _x = [r \in ArgRegs |-> <<W(0), x1, x2, x3, W(0)>>[r + 1]]
    /\ NR = W(0)
    /\ _pstate = set_NZCV(n, z, c, v)
    /\ swiLast = NoSwi
    /\ halted = ""
    /\ swiOps = 0
    /\ instr = NoInstr
    /\ ran = 0

InitMem == InitMemory /\ NoPreprocessor /\ NoEmulator
SpecMem == InitMem /\ [][NextMem]_vars

InitAcc == InitAccessors /\ NoPreprocessor /\ NoEmulator
SpecAcc == InitAcc /\ [][NextAcc]_vars

InitPre == NoMemory /\ NoEmulator /\ \E p \in Programs : Preprocessor(p)
SpecPre == InitPre /\ [][NextPre]_vars

InitSwi ==
    /\ SwiMemory
    /\ NoPreprocessor
    /\ \E x0 \in RegInputs.x0, x1 \in RegInputs.x1, x2 \in RegInputs.x2,
          x3 \in RegInputs.x3, x4 \in RegInputs.x4, nr \in NRInputs,
          z \in BOOLEAN :
          Emulator(x0, x1, x2, x3, x4, nr, z)
SpecSwi == InitSwi /\ [][NextSwi]_vars

InitCpu ==
    /\ NoMemory
    /\ NoPreprocessor
    /\ \E x1 \in TestRegs.x1, x2 \in TestRegs.x2, x3 \in TestRegs.x3,
          n \in BOOLEAN, z \in BOOLEAN, c \in BOOLEAN, v \in BOOLEAN :
          TestSetup(x1, x2, x3, n, z, c, v)
SpecCpu == InitCpu /\ [][NextCpu]_vars

----------------------------------------------------------------------------
(* Properties of the preprocessor *)

Terminated == ppc \in {"done", "thrown"}
Succeeded == ppc = "done" /\ m_state = "PROCESSED_SUCCESS" /\ diag = ""

\* where the string s was written
Positions(s) == {k \in 1 .. Len(written) : written[k] = s}
Emitted(s) == Positions(s) # {}

\* what the directives of a chain mean: #ifdef and #elsedef ask for a defined
\* symbol, #ifndef and #elsendef for an undefined one
ConditionHolds(c, defs) ==
    IF c.type \in {"PREPROCESSOR_IFDEF", "PREPROCESSOR_ELSEDEF"}
    THEN c.sym \in defs
    ELSE c.sym \notin defs
\* the first condition of the chain that is met, 0 if none is
FirstMet(p) ==
    LET met == {k \in 1 .. Len(p.conds) : ConditionHolds(p.conds[k], p.defs)}
    IN IF met = {} THEN 0 ELSE CHOOSE k \in met : \A j \in met : k <= j
\* the marker of the block the chain is to emit, "none" if it is to emit none
ExpectedBlock(p) ==
    IF FirstMet(p) > 0 THEN BlockMarker(FirstMet(p))
    ELSE IF p.hasElse THEN "BE" ELSE "none"
ChainMarkers(p) == {BlockMarker(k) : k \in 1 .. Len(p.conds)} \cup {"BE"}
\* the conditions of the chain itself that were evaluated
IsChainCondition(e) == e.sym # "N"
ChainLog == SelectSeq(condLog, IsChainCondition)
DirectiveTexts == {DirectiveText[t] : t \in DOMAIN DirectiveText}

\* C7: in a conditional chain (opener, chained alternates, #endif) at most one
\* block is emitted: the block of the first condition that is met, or the
\* #else block when none is met. Once a block is taken the later alternates
\* are dropped without being evaluated, and the tokens after the #endif are
\* processed normally. The same holds of a chain nested in the first block.
\* With X defined, "#ifdef X / B1 / #else / BE / #endif" emits B1 and not BE;
\* without the #define it emits BE and not B1.
C7_OneBlockOfChain ==
    prog.family = "chain" =>
      LET exp == ExpectedBlock(prog)
          first == FirstMet(prog)
          evaluated == IF first > 0 THEN first ELSE Len(prog.conds)
      IN /\ \A m \in ChainMarkers(prog) : Emitted(m) => m = exp
         /\ \A m \in ChainMarkers(prog) \cup {"Z", "NC", "ND"} :
                Cardinality(Positions(m)) <= 1
         /\ \A k \in 1 .. Len(written) : written[k] \notin DirectiveTexts
         /\ Len(ChainLog) <= evaluated
         /\ \A k \in 1 .. Len(ChainLog) :
                /\ ChainLog[k].type = prog.conds[k].type
                /\ ChainLog[k].sym = prog.conds[k].sym
                /\ ChainLog[k].met = Verdict(ConditionHolds(prog.conds[k], prog.defs))
         /\ Emitted("NC") => exp = "B1" /\ prog.nest = "defined"
         /\ Emitted("ND") => exp = "B1" /\ prog.nest = "undefined"
         /\ (exp # "none" /\ Terminated) =>
                /\ Succeeded
                /\ tokI = Len(m_tokens)
                /\ Len(ChainLog) = evaluated
                /\ Emitted(exp) /\ Emitted("Z")
                /\ \A k \in Positions(exp), z \in Positions("Z") : k < z
                /\ (exp = "B1" /\ prog.nest = "defined") => Emitted("NC")
                /\ (exp = "B1" /\ prog.nest = "undefined") => Emitted("ND")
         /\ ( /\ Terminated
              /\ prog.conds = <<[type |-> "PREPROCESSOR_IFDEF", sym |-> "X"]>>
              /\ prog.hasElse ) =>
                IF "X" \in prog.defs
                THEN Emitted("B1") /\ ~Emitted("BE")
                ELSE Emitted("BE") /\ ~Emitted("B1")

\* a chain whose opener is not met, whose first alternate is, and whose
\* second alternate and #else block were dropped, after the line Z
C7_Witness ==
    /\ prog.family = "chain"
    /\ Len(prog.conds) = 3
    /\ prog.hasElse
    /\ FirstMet(prog) = 2
    /\ ppc = "done"
    /\ Len(ChainLog) = 2
    /\ Emitted("B2") /\ Emitted("Z")
    /\ ~Emitted("B1") /\ ~Emitted("B3") /\ ~Emitted("BE")

\* C8: when the condition of an opener is not met and the chain has no
\* chained alternate, the block is dropped, preprocessing continues with the
\* tokens after the #endif, and no diagnostic is raised.
C8_UnmetOpenerSkipsToEndif ==
    ( /\ prog.family = "chain"
      /\ Len(prog.conds) = 1
      /\ ~prog.hasElse
      /\ ~ConditionHolds(prog.conds[1], prog.defs)
      /\ Terminated ) =>
        /\ diag = ""
        /\ Succeeded
        /\ ~Emitted("B1")
        /\ Emitted("Z")

\* C9: a second #define of a defined symbol replaces its replacement list
\* without a diagnostic: a later occurrence of the symbol expands to the
\* tokens of the most recent #define.
C9_RedefineReplaces ==
    /\ ppLast.act = "_define" => diag = ""
    /\ \A s \in DOMAIN m_symbols : m_symbols[s] = lastDefine[s]
    /\ ppLast.act = "expand" =>
          SubSeq(m_tokens, tokI + 1, tokI + Len(lastDefine[ppLast.value]))
              = lastDefine[ppLast.value]
    /\ (prog.items = <<"defX1", "defX2", "useX">> /\ ppc = "done") =>
          Emitted("2") /\ ~Emitted("1")

\* C10: after #define X and a later #undef X, X is not in the symbol table: a
\* following #ifdef X takes the not-taken branch and later occurrences of X
\* are emitted unexpanded. #undef of a symbol that was never defined changes
\* nothing and raises no diagnostic.
C10_UndefRemoves ==
    /\ DOMAIN m_symbols = declared
    /\ ppLast.act = "_undefine" =>
          /\ diag = "" /\ ppc = "loop"
          /\ ppLast.sym \notin DOMAIN m_symbols
          /\ \A s \in DOMAIN symbolsBefore \ {ppLast.sym} :
                s \in DOMAIN m_symbols /\ m_symbols[s] = symbolsBefore[s]
          /\ ppLast.sym \notin DOMAIN symbolsBefore => m_symbols = symbolsBefore
    /\ (ppLast.act = "_ifdef" /\ ppLast.met # "none") =>
          ppLast.met = Verdict(ppLast.sym \in declared)
    /\ ppLast.act = "expand" => ppLast.value \in declared
    /\ (ppLast.act = "emit" /\ ppLast.type = "SYMBOL") => ppLast.value \notin declared
    /\ (prog.items = <<"defX1", "undefX", "probeX">> /\ ppc = "done") =>
          Emitted("F") /\ ~Emitted("T")
    /\ (prog.items = <<"defX1", "undefX", "useX">> /\ ppc = "done") =>
          Emitted("X") /\ ~Emitted("1")

\* X was defined, then undefined, and the #ifdef X after it wrote F
C10_Witness ==
    /\ prog.items = <<"defX1", "undefX", "probeX">>
    /\ ppc = "done"
    /\ "X" \in everDeclared /\ "X" \notin DOMAIN m_symbols
    /\ Emitted("F")

\* the loop is at an identifier that is in the symbol table
AtDefinedSymbol ==
    InLoop /\ LoopToken.type = "SYMBOL" /\ LoopToken.value \in DOMAIN m_symbols
\* the strings of a sequence that are not tabs of indentation, and those
\* that are neither tabs nor newlines
NoTabs(strings) == SelectSeq(strings, LAMBDA x : x # "\t")
Words(strings) == SelectSeq(strings, LAMBDA x : x \notin {"\t", "\n"})

\* C11: when the loop meets an identifier that is in the symbol table, it
\* writes nothing for it (at most the tabs that indent the line), and the
\* tokens of its replacement list are the next tokens of the stream, in
\* order, followed by the tokens that followed the identifier. A replacement
\* that holds a defined symbol is therefore expanded in turn, and one that
\* holds a directive has it executed: after "#define Y 7", "#define X Y b",
\* "X c" the words written are "7 b c", and after "#define X 1", "#define D #undef X",
\* "D" the symbol X is undefined. No identifier is written while defined.
C11_ExpansionIsNext ==
    [][/\ AtDefinedSymbol =>
            LET repl == m_symbols[LoopToken.value]
            IN /\ NoTabs(written') = NoTabs(written)
               /\ Len(m_tokens') = Len(m_tokens) + Len(repl)
               /\ SubSeq(m_tokens', tokI' + 1, tokI' + Len(repl)) = repl
               /\ SubSeq(m_tokens', tokI' + Len(repl) + 1, Len(m_tokens'))
                      = SubSeq(m_tokens, tokI + 2, Len(m_tokens))
               /\ ppc' = "loop" /\ diag' = ""
       /\ (prog.items = <<"defY7", "defXYb", "useXc">> /\ ppc' = "done") =>
              Words(written') = <<"7", " ", "b", " ", "c">>
       /\ (prog.items = <<"defX1", "defDundefX", "useD">> /\ ppc' = "done") =>
              /\ "X" \notin DOMAIN m_symbols'
              /\ "D" \in DOMAIN m_symbols'
              /\ Words(written') = <<>>
       /\ (ppLast'.act = "emit" /\ ppLast'.type = "SYMBOL") =>
              ppLast'.value \notin DOMAIN symbolsBefore'
      ]_vars

\* "#define Y 7", "#define X Y b", "X c" has been preprocessed: X was
\* replaced by "Y b", Y by "7", and "7 b c" was written
C11_Witness ==
    /\ prog.items = <<"defY7", "defXYb", "useXc">>
    /\ ppc = "done"
    /\ Words(written) = <<"7", " ", "b", " ", "c">>

\* the text of the tokens, with each run of newlines reduced to one
RECURSIVE CollapsedText(_, _)
CollapsedText(toks, k) ==
    IF k > Len(toks) THEN <<>>
    ELSE IF k > 1 /\ toks[k] = NL /\ toks[k - 1] = NL THEN CollapsedText(toks, k + 1)
    ELSE <<toks[k].value>> \o CollapsedText(toks, k + 1)

\* C12: preprocessing a file with no directives yields its content modulo
\* blank-line collapsing: the output is the text of the input tokens with
\* each run of consecutive newlines reduced to one, and preprocessing ends
\* in PROCESSED_SUCCESS.
C12_PlainTextPreserved ==
    (prog.family = "plain" /\ Terminated) =>
        /\ Succeeded
        /\ written = CollapsedText(tokenize(prog), 1)

\* the macros the pieces of text define and the invocations they make, as the
\* text reads
WordArgument(p) == [name |-> p, type |-> "VARIABLE_TYPE_WORD"]
MacroOf ==
    [macInc |-> Macro("inc", <<WordArgument("a")>>, "VARIABLE_TYPE_WORD",
                      MacretLine(<<Sym("a"), SP, Plus, SP, Num("1")>>)),
     macIncB |-> Macro("inc", <<WordArgument("b")>>, "VARIABLE_TYPE_WORD",
                       MacretLine(<<Sym("b")>>)),
     macInc2 |-> Macro("inc", <<WordArgument("a"), WordArgument("b")>>,
                       "VARIABLE_TYPE_WORD",
                       MacretLine(<<Sym("a"), SP, Plus, SP, Sym("b")>>)),
     macNop |-> Macro("nop", <<>>, "UNKNOWN", <<Sym("A"), NL>>)]
InvocationOf ==
    [invInc5y |-> [name |-> "inc", arguments |-> <<<<Num("5")>>>>, out |-> "y"],
     invInc5 |-> [name |-> "inc", arguments |-> <<<<Num("5")>>>>, out |-> ""],
     invInc12y |-> [name |-> "inc", arguments |-> <<<<Num("1")>>, <<Num("2")>>>>,
                    out |-> "y"],
     invNop |-> [name |-> "nop", arguments |-> <<>>, out |-> ""],
     invNopY |-> [name |-> "nop", arguments |-> <<>>, out |-> "y"]]

\* the piece of the text the token at position tokenI belongs to, counting
\* from the k-th piece that starts at position from
RECURSIVE ItemAt(_, _, _, _)
ItemAt(items, k, from, tokenI) ==
    IF k >= Len(items) \/ tokenI < from + Len(ItemTokens[items[k]])
    THEN items[k]
    ELSE ItemAt(items, k + 1, from + Len(ItemTokens[items[k]]), tokenI)
\* the loop is at the directive of a piece of a text with macros
AtItem(type) == Handles(type) /\ prog.family = "macro"
LoopItem == ItemAt(prog.items, 1, 0, tokI)
Range(f) == {f[x] : x \in DOMAIN f}
SameHeader(a, b) == a.name = b.name /\ Len(a.arguments) = Len(b.arguments)
AlreadyDefined == "Preprocessor::_macro() - Macro already defined"

Matches(inv) ==
    {m \in Range(m_macros) :
        m.name = inv.name /\ Len(m.arguments) = Len(inv.arguments)}
\* what the invocation is to be replaced by: the declaration of the output
\* symbol when there is one and the macro returns, the scope, the parameters,
\* the body, the end of the scope
InvokeReplacement(inv, macro) ==
    (IF inv.out # "" /\ macro.returnType # "UNKNOWN"
     THEN EquZero(inv.out, macro.returnType) ELSE <<>>)
    \o <<Scope, NL>>
    \o ArgumentEquates(macro, inv.arguments, 1)
    \o macro.definition
    \o <<NL, Scend>>
\* the tokens new are the tokens of toks from position tokenI on
NextTokens(toks, tokenI, new) ==
    /\ tokenI + Len(new) <= Len(toks)
    /\ SubSeq(toks, tokenI + 1, tokenI + Len(new)) = new

\* C14: an #invoke of a macro that is in the table leaves, as the next tokens
\* of the stream, the declaration ".equ OUT 0 : TR" (only when the invocation
\* names an output symbol and the macro has a return type), the ".scope"
\* line, one ".equ p_i arg_i : T_i" line per parameter, the body, a newline
\* and ".scend"; and it pushes (OUT, macro) on the invocation stack.
C14_InvokeExpansion ==
    [][(AtItem("PREPROCESSOR_INVOKE") /\ Matches(InvocationOf[LoopItem]) # {}) =>
          LET inv == InvocationOf[LoopItem]
              macro == CHOOSE m \in Matches(inv) : TRUE
          IN /\ ppc' = "loop"
             /\ NextTokens(m_tokens', tokI', InvokeReplacement(inv, macro))
             /\ m_macroStack' =
                    Append(m_macroStack, [first |-> inv.out, second |-> macro])
      ]_vars

\* the texts of tokens, without the newlines
Values(toks) ==
    LET line == SelectSeq(toks, LAMBDA t : t.type # "WHITESPACE_NEWLINE")
    IN [k \in 1 .. Len(line) |-> line[k].value]
IsInfix(a, b) ==
    \E k \in 0 .. Len(b) - Len(a) : SubSeq(b, k + 1, k + Len(a)) = a
\* the expression of the "#macret expr" line a macro's body consists of
ReturnExpression(macro) == SubSeq(macro.definition, 3, Len(macro.definition) - 1)
\* the scope an invocation with an output symbol of a macro that returns is to
\* leave in the output: the parameters set to the arguments, then the output
\* symbol set to the returned expression
ReturningScope(inv, macro) ==
    <<Scope>> \o ArgumentEquates(macro, inv.arguments, 1)
    \o EquHead(inv.out) \o ReturnExpression(macro) \o TypeTail(macro.returnType)
    \o <<Scend>>
\* the invocation the text makes, "none" if it makes none
Call == prog.items[Len(prog.items) - 1]

UnexpectedMacret == "Preprocessor::_macret() - Unexpected macret token."

\* C16: a #macret the loop meets while the invocation stack is empty is a
\* fatal error: the run stops there with the stack, the tokens and the output
\* as they were, so the top of an empty stack is never taken and nothing is
\* popped from it; and whenever #macret goes on, it pops exactly the frame
\* that was on top.
C16_StrayMacretIsFatal ==
    [][Handles("PREPROCESSOR_MACRET") =>
          IF m_macroStack = <<>>
          THEN /\ ppc' = "thrown"
               /\ diag' = UnexpectedMacret
               /\ m_macroStack' = <<>>
               /\ m_tokens' = m_tokens
               /\ Words(written') = Words(written)
          ELSE /\ diag' # UnexpectedMacret
               /\ ppc' = "loop" =>
                    m_macroStack' = SubSeq(m_macroStack, 1, Len(m_macroStack) - 1)
      ]_vars
\* the #macret of the body of inc popped the frame of the invocation, and the
\* #macret on the line after the invocation found the stack empty
C16_Witness ==
    /\ prog.items = <<"macInc", "invInc5y", "macretLine">>
    /\ ppc = "thrown"
    /\ diag = UnexpectedMacret
    /\ m_macroStack = <<>>
    /\ Emitted(".scend")

\* C17: preprocess() starts from UNPROCESSED only; once it has returned with
\* the whole token stream consumed the state is PROCESSED_SUCCESS, once it was
\* abandoned on a fatal diagnostic the state is PROCESSED_FAIL, and PROCESSING
\* is the state only while the loop runs.
C17_StateAfterExit ==
    /\ ppc = "idle" => m_state = "UNPROCESSED"
    /\ ppc = "loop" => m_state = "PROCESSING"
    /\ ppc = "done" => m_state = "PROCESSED_SUCCESS" /\ tokI >= Len(m_tokens)
    /\ ppc = "thrown" => m_state = "PROCESSED_FAIL" /\ diag # ""
    /\ Terminated => m_state # "PROCESSING"

\* the handler of each syscall number
SyscallTable ==
    (W(1000) :> "_emu_print") @@ (W(1001) :> "_emu_printr")
    @@ (W(1002) :> "_emu_printm") @@ (W(1003) :> "_emu_printp")
    @@ (W(1010) :> "_emu_assertr") @@ (W(1011) :> "_emu_assertm")
    @@ (W(1012) :> "_emu_assertp") @@ (W(1020) :> "_emu_log")
    @@ (W(1021) :> "_emu_err")
\* the swi instruction executed is one whose condition passes
SwiTaken == \E cond \in Conds : check_cond(_pstate, cond) /\ _swi(cond)

\* C18: a swi whose condition passes calls the handler of the number in NR:
\* 1000 emu_print, 1001 emu_printr, 1002 emu_printm, 1003 emu_printp,
\* 1010 emu_assertr, 1011 emu_assertm, 1012 emu_assertp, 1020 emu_log and
\* 1021 emu_err; with any other number it calls none and halts with the
\* invalid-syscall diagnostic.
C18_SwiDispatch ==
    [][SwiTaken =>
          IF NR \in DOMAIN SyscallTable
          THEN /\ swiLast'.handler = SyscallTable[NR]
               /\ halted' # InvalidSyscall.halt
          ELSE /\ swiLast'.handler = "none"
               /\ halted' = InvalidSyscall.halt
      ]_vars

\* the word whose byte k, counted from the least significant, is the k-th
\* byte met going up from mem_addr (little_endian) or down from
\* mem_addr + size - 1
AssembledValue(mem_addr, size, little_endian) ==
    [k \in 1 .. WordBytes |->
        IF k > size THEN 0
        ELSE IF little_endian THEN read_byte(WordAdd(mem_addr, k - 1))
        ELSE read_byte(WordAdd(mem_addr, size - k))]

\* C19: the value emu_printm and emu_assertm make of size <= 4 bytes at addr
\* has the byte at addr as its least significant byte when little_endian is
\* true, and the byte at addr + size - 1 as its least significant byte when
\* little_endian is false.
C19_ByteOrder ==
    (/\ swiLast.handler \in {"_emu_printm", "_emu_assertm"}
     /\ swiLast.args[2] <= WordBytes)
    => swiLast.val = AssembledValue(swiLast.args[1], swiLast.args[2],
                                    swiLast.args[3])

\* C20: emu_assertr(reg_id, min, max) halts with its diagnostic exactly when
\* the value of register reg_id, as an unsigned 32-bit number, is below min
\* or above max, which is always so when min is above max; when it does not
\* halt, no register, flag or byte of memory has changed and a further
\* instruction can be executed.
C20_AssertRegister ==
    [][(SwiTaken /\ NR = W(1010)) =>
          LET val == _x[ToByte(_x[0])]
              min_value == _x[1]
              max_value == _x[2]
              outside == WordLT(val, min_value) \/ WordLT(max_value, val)
          IN /\ halted' = _emu_assertr(0, W(1), W(0)).halt <=> outside
             /\ halted' = "" <=> ~outside
             /\ WordLT(max_value, min_value) => halted' # ""
             /\ UNCHANGED <<_x, NR, _pstate, data>>
      ]_vars
\* register x3 holds 0x80000000, which is in [min, 0xFFFFFFFF]: the assertion
\* passed twice
C20_Witness ==
    /\ swiLast.handler = "_emu_assertr"
    /\ swiLast.val = WB(128, 0, 0, 0)
    /\ swiLast.args[3] = WMAX
    /\ halted = ""
    /\ swiOps = MaxSwi

----------------------------------------------------------------------------
(* Properties of the instructions *)

RscImmediate(s) == asm_format_o("_op_rsc", s, 0, 1, 11)
RscRegister(s) == asm_format_o_reg("_op_rsc", s, 0, 1, 2, "SHIFT_LSL", 0)

\* one TEST of rsc_test.cpp: the instruction, x1 and x2 written before run(1),
\* and the x0 and the flags N, Z, C, V expected after it; every test sets the
\* flags to 0, 0, 1, 0 first
RscTest(i, x1, x2, x0, n, z, c, v) ==
    [i |-> i, x |-> <<x1, x2>>, pstate |-> set_NZCV(FALSE, FALSE, TRUE, FALSE),
     x0 |-> x0, flags |-> set_NZCV(n = 1, z = 1, c = 1, v = 1)]
rsc_tests ==
    {RscTest(RscImmediate(FALSE), W(9), W(0), W(1), 0, 0, 1, 0),
     RscTest(RscRegister(FALSE), W(9), W(11), W(1), 0, 0, 1, 0),
     RscTest(RscRegister(TRUE), W(2), W(2), WMAX, 1, 0, 1, 0),
     RscTest(RscRegister(TRUE), W(1), W(2), W(0), 0, 1, 0, 0),
     RscTest(RscRegister(TRUE), Minus2, Minus2, WMAX, 1, 0, 1, 0),
     RscTest(RscRegister(TRUE), Minus2, W(2), W(3), 0, 0, 1, 0),
     RscTest(RscRegister(TRUE), Minus2, MaxInt, MinInt, 1, 0, 1, 1),
     RscTest(RscRegister(TRUE), W(0), MinInt, MaxInt, 0, 0, 0, 1)}

\* this step is run(1) of the test t, from the registers and flags t sets
RunsTest(t) ==
    /\ ran = 0
    /\ instr' = t.i
    /\ <<_x[1], _x[2]>> = t.x
    /\ _pstate = t.pstate

\* this step executes one instruction with opcode op
Executes(op) == ran' = ran + 1 /\ instr'.op = op

\* the digit sums of d + n + c, each with the carry of the one before
DigitSums(d, n, c) ==
    LET s1 == d[1] + n[1] + c
        s2 == d[2] + n[2] + s1 \div ByteMod
        s3 == d[3] + n[3] + s2 \div ByteMod
        s4 == d[4] + n[4] + s3 \div ByteMod
    IN  <<s1, s2, s3, s4>>
\* d + n + c = a modulo 2^32
AddsUpTo(d, n, c, a) ==
    \A k \in 1 .. WordBytes : DigitSums(d, n, c)[k] % ByteMod = a[k]

\* C21: rsc xd, xn, operand two writes xd = operand two - xn - C modulo 2^32,
\* C the carry flag before the instruction, with or without the S bit, and
\* changes no other register; the tests' inputs give the values they expect
C21_RscResult ==
    [][Executes("_op_rsc") =>
         /\ AddsUpTo(_x'[instr'.xd], _x[instr'.xn], FlagBit(_pstate.C),
                     operand2(_x, instr'))
         /\ \A r \in ArgRegs \ {instr'.xd} : _x'[r] = _x[r]
         /\ \A t \in rsc_tests : RunsTest(t) => _x'[0] = t.x0]_vars
C21_Witness ==
    /\ ran = 1
    /\ instr = RscRegister(TRUE)
    /\ _x[1] = Minus2 /\ _x[2] = MaxInt /\ _x[0] = MinInt

\* the upper half of a word as a signed 16-bit number
SignedHiHalf(w) == HiHalf(w) - (IF Bit31(w) THEN ByteMod * ByteMod ELSE 0)
\* a - b - c of the signed words a and b is outside [-2^31, 2^31)
SignedOverflow(a, b, c) ==
    LET l == LoHalf(a) - LoHalf(b) - c
        h == SignedHiHalf(a) - SignedHiHalf(b) - (IF l < 0 THEN 1 ELSE 0)
    IN  h < -((ByteMod * ByteMod) \div 2) \/ h >= (ByteMod * ByteMod) \div 2
\* a - b - c needs a borrow: a < b + c as unsigned numbers
Borrows(a, b, c) == WordLT(a, b) \/ (a = b /\ c = 1)

\* N, Z and V after rsc with the S bit: bit 31 of the result, result = 0, and
\* the signed overflow of operand two - xn - C
RscSetsNZV ==
    LET a == operand2(_x, instr')
        b == _x[instr'.xn]
        d == _x'[instr'.xd]
    IN  /\ _pstate'.N = Bit31(d)
        /\ _pstate'.Z = (d = W(0))
        /\ _pstate'.V = SignedOverflow(a, b, FlagBit(_pstate.C))

Umull(s) == asm_format_o2("_op_umull", s, 0, 1, 2, 3)
Smull(s) == asm_format_o2("_op_smull", s, 0, 1, 2, 3)

\* one TEST of smull_test.cpp or umull_test.cpp: the instruction, x2 and x3
\* written and the flags set before run(1), and the x0, the x1 and the flags
\* expected after it
MullTest(i, x2, x3, nzcv, x0, x1, n, z, c, v) ==
    [i |-> i, x |-> <<x2, x3>>,
     pstate |-> set_NZCV(nzcv[1] = 1, nzcv[2] = 1, nzcv[3] = 1, nzcv[4] = 1),
     x0 |-> x0, x1 |-> x1, flags |-> set_NZCV(n = 1, z = 1, c = 1, v = 1)]
mull_tests ==
    {MullTest(Smull(FALSE), W(2), W(4), <<0, 0, 0, 0>>, W(8), W(0), 0, 0, 0, 0),
     MullTest(Smull(TRUE), Minus2, W(4), <<0, 0, 0, 0>>, WordSub(W(0), W(8)), WMAX,
              1, 0, 0, 0),
     MullTest(Smull(TRUE), W(0), W(4), <<0, 0, 1, 1>>, W(0), W(0), 0, 1, 1, 1),
     MullTest(Umull(FALSE), W(2), W(4), <<0, 0, 0, 0>>, W(8), W(0), 0, 0, 0, 0),
     MullTest(Umull(TRUE), WMAX, WMAX, <<0, 0, 0, 0>>, W(1), Minus2, 1, 0, 0, 0),
     MullTest(Umull(TRUE), W(0), W(4), <<0, 0, 1, 1>>, W(0), W(0), 0, 1, 1, 1)}

\* this step is run(1) of the long multiply test t
RunsMullTest(t) ==
    /\ ran = 0
    /\ instr' = t.i
    /\ <<_x[2], _x[3]>> = t.x
    /\ _pstate = t.pstate

\* C23: an instruction without the S bit (rsc, umull, smull) leaves the flags
\* N, Z, C and V as they were, whatever its operands and its result
C23_FlagsKeptWithoutS ==
    [][ran' = ran + 1 /\ ~instr'.s =>
         /\ _pstate' = _pstate
         /\ \A t \in rsc_tests : RunsTest(t) => _pstate' = t.flags
         /\ \A t \in mull_tests : RunsMullTest(t) => _pstate' = t.flags]_vars
C23_Witness ==
    /\ ran = 1
    /\ instr = RscRegister(FALSE)
    /\ _x[1] = W(1) /\ _x[2] = W(2) /\ _x[0] = W(0)
    /\ _pstate = set_NZCV(TRUE, FALSE, TRUE, TRUE)

\* pairwise coprime moduli whose product exceeds 2^64: a number of less than
\* 64 bits is determined by its residues
Moduli == {32749, 32719, 32717, 32713, 32707}
\* the number with the digits d, least significant first, modulo m
Residue(d, m) ==
    LET r[k \in 0 .. Len(d)] ==
            IF k = 0 THEN 0 ELSE (r[k - 1] * ByteMod + d[Len(d) + 1 - k]) % m
    IN  r[Len(d)]
\* the same for d read as a two's complement number
SignedResidue(d, m) ==
    LET power == [k \in 1 .. Len(d) + 1 |-> IF k = Len(d) + 1 THEN 1 ELSE 0]
    IN  IF d[Len(d)] >= ByteMod \div 2
        THEN (Residue(d, m) - Residue(power, m)) % m
        ELSE Residue(d, m)
\* the 64-bit number p is a * b, the words a and b read as unsigned numbers
IsUnsignedProduct(p, a, b) ==
    \A m \in Moduli : Residue(p, m) = (Residue(a, m) * Residue(b, m)) % m
\* the 64-bit number p is a * b, two's complement numbers all three
IsSignedProduct(p, a, b) ==
    \A m \in Moduli :
        SignedResidue(p, m) = (SignedResidue(a, m) * SignedResidue(b, m)) % m

\* C24: umull and smull xlo, xhi, xn, xm write the low 32 bits of the 64-bit
\* product xn * xm to xlo and the high 32 bits to xhi, the operands read as
\* unsigned numbers by umull and as signed numbers by smull, and leave xn
\* and xm as they were; the tests' inputs give the values they expect
C24_LongMultiply ==
    [][Executes("_op_umull") \/ Executes("_op_smull") =>
         LET i == instr'
             p == _x'[i.xlo] \o _x'[i.xhi]
         IN  /\ Executes("_op_umull") => IsUnsignedProduct(p, _x[i.xn], _x[i.xm])
             /\ Executes("_op_smull") => IsSignedProduct(p, _x[i.xn], _x[i.xm])
             /\ _x'[i.xn] = _x[i.xn] /\ _x'[i.xm] = _x[i.xm]
             /\ \A t \in mull_tests :
                    RunsMullTest(t) => _x'[0] = t.x0 /\ _x'[1] = t.x1]_vars
C24_Witness ==
    /\ ran = 1
    /\ instr.op = "_op_smull"
    /\ _x[2] = Minus2 /\ _x[3] = W(4)
    /\ _x[0] = WordSub(W(0), W(8)) /\ _x[1] = WMAX

\* C25: with the S bit, umull and smull set N to bit 63 of the product (for
\* smull: the operands are not 0 and differ in sign) and Z to product = 0
\* (an operand is 0), and leave C and V as they were; the tests' inputs give
\* the flags they expect
C25_LongMultiplyFlags ==
    [][(Executes("_op_umull") \/ Executes("_op_smull")) /\ instr'.s =>
         LET i == instr'
             a == _x[i.xn]
             b == _x[i.xm]
         IN  /\ _pstate'.N = Bit31(_x'[i.xhi])
             /\ Executes("_op_smull") =>
                    _pstate'.N = (a # W(0) /\ b # W(0) /\ Bit31(a) # Bit31(b))
             /\ _pstate'.Z = (a = W(0) \/ b = W(0))
             /\ _pstate'.Z = (_x'[i.xlo] = W(0) /\ _x'[i.xhi] = W(0))
             /\ _pstate'.C = _pstate.C /\ _pstate'.V = _pstate.V
             /\ \A t \in mull_tests : RunsMullTest(t) => _pstate' = t.flags]_vars
C25_Witness ==
    /\ ran = 1
    /\ instr = Smull(TRUE)
    /\ _x[2] = W(0) /\ _x[3] = W(4)
    /\ _x[0] = W(0) /\ _x[1] = W(0)
    /\ _pstate = set_NZCV(FALSE, TRUE, TRUE, TRUE)

----------------------------------------------------------------------------
(* Properties of the macro scopes and of the conditional blocks *)

\* the index of the ".scend" that closes the scope tokenI is in, pairs of
\* ".scope" and ".scend" in between being skipped; Len(toks) if there is none
RECURSIVE ClosingScend(_, _, _)
ClosingScend(toks, tokenI, level) ==
    IF tokenI >= Len(toks) THEN Len(toks)
    ELSE IF isToken(toks, tokenI, {"ASSEMBLER_SCOPE"})
    THEN ClosingScend(toks, tokenI + 1, level + 1)
    ELSE IF isToken(toks, tokenI, {"ASSEMBLER_SCEND"})
    THEN IF level = 0 THEN tokenI ELSE ClosingScend(toks, tokenI + 1, level - 1)
    ELSE ClosingScend(toks, tokenI + 1, level)

\* the loop is at a #macret inside an invoked macro, before the ".scend" of
\* the invocation, and _macret returns
ReturnsFromMacro ==
    /\ Handles("PREPROCESSOR_MACRET")
    /\ m_macroStack # <<>>
    /\ ClosingScend(m_tokens, tokI, 0) < Len(m_tokens)
    /\ ppc' = "loop"

\* C26: a #macret inside an invoked macro leaves the cursor right behind the
\* ".scend" the #invoke put after the body: the tokens of the body after the
\* #macret line and that ".scend" are consumed (behind the cursor, so neither
\* emitted nor executed), pairs of ".scope" and ".scend" among them included
C26_MacretSkipsToScend ==
    [][ReturnsFromMacro =>
         LET scendI == ClosingScend(m_tokens, tokI, 0)
         IN  SubSeq(m_tokens', 1, tokI') = SubSeq(m_tokens, 1, scendI + 1)]_vars

\* C27: every frame #invoke pushes is popped once, by #macret or else when the
\* ".scend" that closes the expansion is reached: once that ".scend" is
\* behind, the stack is as deep as before the #invoke (empty, for an #invoke
\* outside any macro), and it is empty when preprocess() ends with success
C27_StackBalanced ==
    prog.family = "macro" /\ (Emitted(".scend") \/ Succeeded) => m_macroStack = <<>>

\* C28: the resolver counts every nested opener, #ifequ and its like as well
\* as #ifdef and #ifndef, so that an #else or #endif of a nested conditional
\* never ends the outer block: whatever chain the first block starts with,
\* the outer chain emits the block of its own first condition that is met, or
\* its #else block, and nothing of its other blocks
C28_NestedNeverEndsOuter ==
    (prog.family \in {"chain", "compare"} /\ prog.nest # "none") =>
      LET exp == ExpectedBlock(prog)
      IN  /\ \A m \in ChainMarkers(prog) : Emitted(m) => m = exp
          /\ (exp # "none" /\ Terminated) =>
                 Succeeded /\ Emitted(exp) /\ Emitted("Z")

\* C29: an opener or a chained alternate without a matching #endif before the
\* end of the tokens is a fatal error, its condition met or not, a chained
\* alternate following or not
C29_UnclosedIsFatal ==
    (prog.family = "open" /\ Terminated) => ~Succeeded /\ diag # ""

----------------------------------------------------------------------------
(* The comparison openers: _ifequ, _ifnequ, _ifless, _ifmore. The loop of
   preprocess() never calls them, for the Tokenizer has no token type for
   their directives; they are applied here to a cursor that stands on a
   directive token of their own *)

\* the bytes of the texts the comparisons read
Text ==
    ("a" :> <<97>>) @@ ("b" :> <<98>>) @@ ("ab" :> <<97, 98>>)
        @@ ("B" :> <<66>>) @@ (" " :> <<32>>)
        @@ ("\"\"" :> <<34, 34>>) @@ ("\"a\"" :> <<34, 97, 34>>)
        @@ ("\"b\"" :> <<34, 98, 34>>) @@ ("\"B\"" :> <<34, 66, 34>>)
        @@ ("\"ab\"" :> <<34, 97, 98, 34>>)
        @@ ("\"a b\"" :> <<34, 97, 32, 98, 34>>)

\* string_util::trimString(str, left, right): str without its first left and
\* its last right characters
trimString(str, left, right) == SubSeq(str, left + 1, Len(str) - right)

\* "for (Token& token : m_symbols[symbol]) symbolValue += token.value", the
\* empty string for a symbol that is not in the table
RECURSIVE Concatenation(_)
Concatenation(tokens) ==
    IF tokens = <<>> THEN <<>>
    ELSE Text[Head(tokens).value] \o Concatenation(Tail(tokens))
symbolValue(syms, symbol) ==
    IF symbol \in DOMAIN syms THEN Concatenation(syms[symbol]) ELSE <<>>

\* std::string operator<: the first byte that differs decides, a proper prefix
\* is less
RECURSIVE StringLess(_, _)
StringLess(lhs, rhs) ==
    IF rhs = <<>> THEN FALSE
    ELSE IF lhs = <<>> THEN TRUE
    ELSE IF Head(lhs) # Head(rhs) THEN Head(lhs) < Head(rhs)
    ELSE StringLess(Tail(lhs), Tail(rhs))

\* the comparisons of lines 694, 730, 766 and 802
isEqual(value, literal) == trimString(literal, 1, 1) = value
isNotEqual(value, literal) == trimString(literal, 1, 1) # value
isLess_OrEqual(value, literal) == ~StringLess(trimString(literal, 1, 1), value)
isLess(value, literal) == StringLess(value, trimString(literal, 1, 1))
isMore(value, literal) == StringLess(trimString(literal, 1, 1), value)

\* the body the four handlers share: the directive, the symbol, the string
\* literal, then conditionalBlock on the result of the comparison
ConditionalOnValue(toks, syms, tokenI, name, holds(_, _)) ==
    LET h == SymbolHead(toks, tokenI, "Preprocessor::" \o name \o "() - Expected symbol.")
        err == consume(toks, h.tokenI, {"LITERAL_STRING"},
                       "Preprocessor::" \o name \o "() - Expected value.")
    IN IF h.err # "" THEN Thrown(h.err, toks, h.tokenI, syms, "")
       ELSE IF err # "" THEN Thrown(err, toks, h.tokenI, syms, h.symbol)
       ELSE conditionalBlock(toks, syms, skipTokens(toks, h.tokenI + 1), h.symbol,
                             holds(symbolValue(syms, h.symbol),
                                   Text[At(toks, h.tokenI).value]))

\* Preprocessor::_ifequ
_ifequ(toks, syms, tokenI) == ConditionalOnValue(toks, syms, tokenI, "_ifequ", isEqual)
\* Preprocessor::_ifnequ
_ifnequ(toks, syms, tokenI) == ConditionalOnValue(toks, syms, tokenI, "_ifnequ", isNotEqual)
\* Preprocessor::_ifless
_ifless(toks, syms, tokenI) == ConditionalOnValue(toks, syms, tokenI, "_ifless", isLess)
\* Preprocessor::_ifmore
_ifmore(toks, syms, tokenI) == ConditionalOnValue(toks, syms, tokenI, "_ifmore", isMore)

\* the replacement tokens of X ("none": X is not defined) and the literals
Replacements ==
    {<<>>, <<Sym("a")>>, <<Sym("ab")>>, <<Sym("a"), Sym("b")>>,
     <<Sym("a"), SP, Sym("b")>>, <<Sym("B")>>, <<Sym("b")>>}
Literals == {"\"\"", "\"a\"", "\"b\"", "\"B\"", "\"ab\"", "\"a b\""}
ComparisonDirectives == {"#ifequ", "#ifnequ", "#ifless", "#ifmore"}

\* "<directive> X <literal> / A / #else / B / #endif / Z"
ComparisonTokens(directive, literal) ==
    <<Token("PREPROCESSOR_DIRECTIVE", directive), SP, Sym("X"), SP,
      Token("LITERAL_STRING", literal), NL>>
        \o TextLine("A") \o ElseLine \o TextLine("B") \o EndifLine \o TextLine("Z")

\* the loop of preprocess() with the cursor on the comparison and X defined
\* as said
Comparing(directive, defined, replacement, literal) ==
    /\ prog = [family |-> "handler", defs |-> IF defined THEN {"X"} ELSE {},
               nest |-> "none", conds |-> <<>>, hasElse |-> TRUE,
               items |-> <<directive, literal>>]
    /\ m_state = "PROCESSING"
    /\ m_tokens = ComparisonTokens(directive, literal)
    /\ m_symbols = IF defined THEN MapPut(EmptyMap, "X", replacement) ELSE EmptyMap
    /\ m_macros = EmptyMap
    /\ m_macroStack = <<>>
    /\ tokI = 0
    /\ written = <<>>
    /\ m_writer = "open"
    /\ currentIndentLevel = 0
    /\ targetIndentLevel = 0
    /\ ppc = "loop"
    /\ diag = ""
    /\ lastDefine = IF defined THEN MapPut(EmptyMap, "X", replacement) ELSE EmptyMap
    /\ declared = IF defined THEN {"X"} ELSE {}
    /\ everDeclared = declared
    /\ condLog = <<>>
    /\ ppLast = NoIteration
    /\ symbolsBefore = m_symbols

\* a handler is called on the directive the cursor stands on
Compares(directive, act, handler(_, _, _)) ==
    /\ InLoop
    /\ ppLast = NoIteration
    /\ LoopToken.value = directive
    /\ Iteration(act, handler(m_tokens, m_symbols, tokI), <<>>)
    /\ UNCHANGED <<declared, everDeclared, lastDefine, m_macros, m_macroStack>>
    /\ UNCHANGED memVars

Cmp_Ifequ == Compares("#ifequ", "_ifequ", _ifequ)
Cmp_Ifnequ == Compares("#ifnequ", "_ifnequ", _ifnequ)
Cmp_Ifless == Compares("#ifless", "_ifless", _ifless)
Cmp_Ifmore == Compares("#ifmore", "_ifmore", _ifmore)

NextCmp == Cmp_Ifequ \/ Cmp_Ifnequ \/ Cmp_Ifless \/ Cmp_Ifmore

InitCmp ==
    /\ NoMemory
    /\ NoEmulator
    /\ \E directive \in ComparisonDirectives, defined \in BOOLEAN,
          replacement \in Replacements, literal \in Literals :
            Comparing(directive, defined, replacement, literal)
SpecCmp == InitCmp /\ [][NextCmp]_vars

----------------------------------------------------------------------------
(* Properties of the comparison openers *)

\* the text of X's replacement tokens and of the literal between its quotes
ValueOfX == IF "X" \in DOMAIN m_symbols THEN Concatenation(m_symbols["X"]) ELSE <<>>
LiteralText == LET quoted == Text[prog.items[2]]
               IN [k \in 1 .. Len(quoted) - 2 |-> quoted[k + 1]]

\* a precedes b in byte-wise order: they agree on their first k bytes, and
\* there a ends and b goes on, or a has the smaller byte
Precedes(a, b) ==
    \E k \in 0 .. Len(a) :
        /\ k <= Len(b)
        /\ \A j \in 1 .. k : a[j] = b[j]
        /\ \/ k = Len(a) /\ k < Len(b)
           \/ k < Len(a) /\ k < Len(b) /\ a[k + 1] < b[k + 1]

\* what the four handlers say of the comparison the run started with
MetBy(handler(_, _, _)) ==
    handler(ComparisonTokens(prog.items[1], prog.items[2]), m_symbols, 0).met = "met"

\* the block of the opener is taken: the cursor is on the comment put before
\* it and the #else block is gone up to its #endif; or it is skipped: the
\* cursor is on #else
BlockTaken ==
    /\ At(m_tokens, tokI) = ConditionalComment
    /\ SubSeq(m_tokens, tokI + 2, Len(m_tokens)) =
           <<NL>> \o TextLine("A") \o EndifLine \o TextLine("Z")
BlockSkipped ==
    /\ At(m_tokens, tokI).type = "PREPROCESSOR_ELSE"
    /\ SubSeq(m_tokens, tokI + 2, Len(m_tokens)) =
           <<NL>> \o TextLine("B") \o EndifLine \o TextLine("Z")
TakenIff(condition) ==
    /\ diag = ""
    /\ ppLast.met = Verdict(condition)
    /\ IF condition THEN BlockTaken ELSE BlockSkipped

----------------------------------------------------------------------------
(* Properties of the arguments and of the end of #invoke *)

\* the token runs between the top-level commas of an argument list that
\* starts at tokenI, up to the closing parenthesis that matches: newlines and
\* the blanks before a run are left out
RECURSIVE TopLevelRuns(_, _, _, _, _)
TopLevelRuns(toks, tokenI, depth, current, runs) ==
    IF tokenI >= Len(toks) THEN runs
    ELSE
      LET tok == At(toks, tokenI)
      IN IF tok.type = "CLOSE_PARANTHESIS" /\ depth = 0
         THEN IF runs = <<>> /\ current = <<>> THEN <<>> ELSE Append(runs, current)
         ELSE IF tok.type = "COMMA" /\ depth = 0
         THEN TopLevelRuns(toks, tokenI + 1, depth, <<>>, Append(runs, current))
         ELSE IF tok.type = "WHITESPACE_NEWLINE" \/ (current = <<>> /\ IsBlank(tok))
         THEN TopLevelRuns(toks, tokenI + 1, depth, current, runs)
         ELSE TopLevelRuns(toks, tokenI + 1,
                           IF tok.type = "OPEN_PARANTHESIS" THEN depth + 1
                           ELSE IF tok.type = "CLOSE_PARANTHESIS" THEN depth - 1
                           ELSE depth,
                           Append(current, tok), runs)

\* the index after the opening parenthesis of the #invoke the cursor is on
ArgumentsStart == FindType(m_tokens, tokI, {"OPEN_PARANTHESIS"}) + 1

\* C31: the arguments of #invoke are the token runs between the top-level
\* commas up to the matching closing parenthesis, newlines skipped, and the
\* macro is selected by their number
C31_TopLevelArguments ==
    (prog.family = "args" /\ Handles("PREPROCESSOR_INVOKE")) =>
      LET parsed == InvokeArguments(m_tokens, ArgumentsStart, <<>>)
          runs == TopLevelRuns(m_tokens, ArgumentsStart, 0, <<>>, <<>>)
          o == _invoke(m_tokens, m_symbols, m_macros, m_macroStack, tokI)
      IN /\ parsed.err = ""
         /\ parsed.arguments = runs
         /\ o.r.err = ""
         /\ Len(top(o.stack).second.arguments) = Len(runs)

\* the closing parenthesis of the #invoke the cursor is on, and whether the
\* line of the #invoke ends right behind it
ArgumentsEnd == FindType(m_tokens, ArgumentsStart, {"CLOSE_PARANTHESIS"})
NoOutputOnLine ==
    \/ ArgumentsEnd + 1 = Len(m_tokens)
    \/ /\ ArgumentsEnd + 1 < Len(m_tokens)
       /\ At(m_tokens, ArgumentsEnd + 1).type = "WHITESPACE_NEWLINE"
\* the macro the #invoke names is defined with that number of arguments
InvokesDefined ==
    <<At(m_tokens, skipTokens(m_tokens, tokI + 1)).value,
      Len(TopLevelRuns(m_tokens, ArgumentsStart, 0, <<>>, <<>>))>> \in DOMAIN m_macros

\* C35: an #invoke without an output symbol on its line consumes nothing
\* behind its closing parenthesis: the cursor is left right behind it, no
\* output symbol is recorded, and the end of the file right behind the
\* parenthesis is no error
C35_InvokeEndsAtParenthesis ==
    (/\ prog.family \in {"macro", "tail"}
     /\ Handles("PREPROCESSOR_INVOKE")
     /\ InvokesDefined
     /\ NoOutputOnLine) =>
      LET o == _invoke(m_tokens, m_symbols, m_macros, m_macroStack, tokI)
      IN /\ o.r.err = ""
         /\ top(o.stack).first = ""
         /\ o.r.tokenI = ArgumentsEnd + 1

\* the frame the #invoke that brought the #macret under the cursor pushed: in
\* the texts of family "nested" the "#macret 1" is of wrap, invoked with the
\* output symbol y, and the "#macret a + 1" is of inc, invoked with z
MacretValue == At(m_tokens, skipTokens(m_tokens, tokI + 1))
OwnFrame ==
    IF MacretValue = Num("1")
    THEN [first |-> "y", second |-> m_macros[<<"wrap", 0>>]]
    ELSE [first |-> "z", second |-> m_macros[<<"inc", 1>>]]

\* C34: at every #macret the top of the stack is the frame of the #invoke
\* whose expansion holds the #macret, and the ".equ" put in names that
\* invocation's output symbol and that macro's return type, also after the
\* body has invoked another macro
C34_MacretOfOwnFrame ==
    (prog.family = "nested" /\ Handles("PREPROCESSOR_MACRET")) =>
      LET o == _macret(m_tokens, m_symbols, m_macros, m_macroStack, tokI)
          equ == EquHead(OwnFrame.first)
      IN /\ top(m_macroStack) = OwnFrame
         /\ o.r.err = ""
         /\ SubSeq(o.r.tokens, o.r.tokenI + 1, o.r.tokenI + Len(equ)) = equ

----------------------------------------------------------------------------
(* Properties of the exits of preprocess() *)

\* C32: the writer opened at the entry of preprocess() is closed on every way
\* out of it, the way out of a fatal error of a handler included
C32_WriterClosedOnExit == Terminated => m_writer = "closed"

\* preprocess() on the texts without directives, under a scheduler that
\* always runs the next iteration of the loop
InitPlain == NoMemory /\ NoEmulator /\ \E p \in PlainPrograms : Preprocessor(p)
NextPlain ==
    \/ PP_Begin
    \/ PP_SkipNewline
    \/ PP_SpinOnSpace
    \/ PP_EmitToken
    \/ PP_End
SpecPlain == InitPlain /\ [][NextPlain]_vars /\ WF_vars(NextPlain)

\* C33: preprocess() terminates on every text: the loop ends, or an error is
\* thrown, also for a line that starts with a space inside a .scope
C33_Terminates == <>Terminated

----------------------------------------------------------------------------
(* Properties of the array of a region and of the accessors *)

\* the offsets addr - lo_addr + i, 0 <= i < n, of an access in the region
RegionOffsets(address, num_bytes) ==
    {WordAdd(WordSub(address, lo_addr), i) : i \in 0 .. (num_bytes - 1)}

\* C36: in a region that does not start at 0 an accepted read or write of n
\* bytes at addr indexes the array at addr - lo_addr + i only, below mem_size
C36_AccessWithinArray ==
    (lo_addr # W(0) /\ LastIsMemoryAccess /\ LastAccepted) =>
      /\ TouchedCells(memOp.address, memOp.num_bytes) =
             RegionOffsets(memOp.address, memOp.num_bytes)
      /\ OobCells(memOp.address, memOp.num_bytes) = {}
      /\ ~memOob

\* the number of bytes the accessors are named after
WidthOf ==
    [readByte |-> 1, readHalfWord |-> 2, readWord |-> WordBytes,
     writeByte |-> 1, writeHalfWord |-> 2, writeWord |-> WordBytes, none |-> 0]
WriteAccessors == {"writeByte", "writeHalfWord", "writeWord"}
ReadOf == [writeByte |-> "readByte", writeHalfWord |-> "readHalfWord",
           writeWord |-> "readWord"]

\* C37: writeByte, writeHalfWord and writeWord write 1, 2 and 4 bytes at the
\* address and no other byte: a write whose bytes are inside the region is
\* accepted (so a writeByte at hi_addr is) and changes no element outside
\* them, and the read of the same width at the same address right after it
\* returns the value written
C37_AccessorWidths ==
    /\ (/\ accessor.name \in WriteAccessors
        /\ MathInBounds(memOp.address, WidthOf[accessor.name]))
       => /\ wex.type = "AOK"
          /\ \A c \in DOMAIN data :
                c \notin TouchedCells(memOp.address, WidthOf[accessor.name])
                   => data[c] = dataBefore[c]
    /\ (/\ accessor.prev \in WriteAccessors
        /\ accessor.name = ReadOf[accessor.prev]
        /\ memOp.address = memPrevOp.address
        /\ MathInBounds(memOp.address, WidthOf[accessor.name]))
       => /\ rex.type = "AOK"
          /\ memRet = memPrevOp.value

============================================================================
